---- MODULE Spec2Model ----
(***************************************************************************)
(* A model of the Lox interpreter core: the recursive-descent parser       *)
(* (src/src/parser.rs), the runtime value type (src/src/expressions/       *)
(* expression.rs) and the expression evaluator (src/src/expressions/       *)
(* visitor.rs).                                                            *)
(*                                                                         *)
(* Strings are sequences of one-character strings, so that concatenation,  *)
(* decimal parsing and decimal formatting are computed, not assumed.       *)
(* The cursor `current` is 0-based as in the source: tokens[current] is    *)
(* toks[current + 1] here.                                                 *)
(***************************************************************************)
EXTENDS Integers, Sequences, FiniteSets, TLC

VARIABLES
  tokens,        \* Parser.tokens
  current,       \* Parser.current
  declarations,  \* the Vec that Parser::program fills
  pstatus,       \* "parsing", "parsed", "panic", "oob", "hang"
  lastDecl,      \* what the last declaration() call of the program loop did
  ip,            \* how many of the parsed declarations have been executed
  scopes,        \* the heap of scopes: scopes[id] is one Environment
  out,           \* lines written by print statements
  estatus,       \* "ok", or why evaluation aborted
  last,          \* the last operation applied, with its input and its result
  overflow_checks  \* whether the build checks integer overflow (the default
                   \* of a debug build) or wraps (the default of a release build)

vars ==
  <<tokens, current, declarations, pstatus, lastDecl, ip, scopes, out, estatus, last,
    overflow_checks>>

parser_vars == <<tokens, current, declarations, pstatus, lastDecl, ip>>

machine_vars == <<scopes, out, estatus>>

(***************************************************************************)
(* Tokens and AST nodes                                                    *)
(***************************************************************************)
Token(tt, v) == [token_type |-> tt, value |-> v]

None == [kind |-> "None"]

LiteralExpr(tt, v) == [kind |-> "LiteralExpr", token_type |-> tt, value |-> v]

VariableExpr(tt, v) == [kind |-> "VariableExpr", token_type |-> tt, value |-> v]

GroupingExpr(e) == [kind |-> "GroupingExpr", value |-> e]

BinaryExpr(tok, rhs, lhs) == [kind |-> "BinaryExpr", token |-> tok, rhs |-> rhs, lhs |-> lhs]

UnaryExpr(tok, rhs) == [kind |-> "UnaryExpr", token |-> tok, rhs |-> rhs]

Assignment(id, v) == [kind |-> "Assignment", identifier |-> id, value |-> v]

Logical(tok, rhs, lhs) == [kind |-> "Logical", token |-> tok, rhs |-> rhs, lhs |-> lhs]

Call(id, args) == [kind |-> "Call", identifier |-> id, args |-> args]

Get(e, name) == [kind |-> "Get", expr |-> e, name |-> name]

\* The result of one parser method: its Option value, the cursor it leaves,
\* and how it ended: "ok", "panic" (unwrap of None or panic!), "oob" (index
\* past the token vector) or "hang" (a loop whose state no longer changes).
R(e, cur, st) == [e |-> e, cur |-> cur, st |-> st]

\* K applied to v: names the result of a call once, for the code that follows it.
Bind(v, K(_)) == K(v)

\* Parser::peek_next
peek_next(toks, cur, tt) == cur < Len(toks) /\ toks[cur + 1].token_type = tt

\* Parser::consume: reads tokens[current] first, then advances on a match.
consume(toks, cur, tt) ==
  IF cur >= Len(toks) THEN R(None, cur, "oob")
  ELSE IF toks[cur + 1].token_type = tt THEN R(None, cur + 1, "ok")
  ELSE R(None, cur, "ok")

RECURSIVE parse(_, _, _)
RECURSIVE expression(_, _)
RECURSIVE assignment(_, _)
RECURSIVE logic_or(_, _)
RECURSIVE logic_and(_, _)
RECURSIVE equality(_, _)
RECURSIVE equality_loop(_, _, _)
RECURSIVE comparison(_, _)
RECURSIVE comparison_loop(_, _, _)
RECURSIVE term(_, _)
RECURSIVE term_loop(_, _, _)
RECURSIVE factor(_, _)
RECURSIVE factor_loop(_, _, _)
RECURSIVE unary(_, _)
RECURSIVE call(_, _)
RECURSIVE call_loop(_, _, _)
RECURSIVE call_args(_, _, _, _)
RECURSIVE primary(_, _)

(***************************************************************************)
(* Expression grammar                                                      *)
(***************************************************************************)
primary(toks, cur) ==
  IF cur >= Len(toks) THEN R(None, cur, "oob")
  ELSE
    Bind(toks[cur + 1], LAMBDA t :
    CASE t.token_type \in {"False", "True", "Nil", "String", "Number"} ->
           R(LiteralExpr(t.token_type, t.value), cur + 1, "ok")
      [] t.token_type = "LeftParen" ->
           Bind(parse("expression", toks, cur + 1), LAMBDA r :
           IF r.st # "ok" THEN R(None, r.cur, r.st)
           ELSE IF r.e = None THEN R(None, r.cur, "panic")
           ELSE IF r.cur >= Len(toks) THEN R(None, r.cur, "oob")
           ELSE R(GroupingExpr(r.e), r.cur + 1, "ok"))
      [] t.token_type = "Identifier" ->
           R(VariableExpr(t.token_type, t.value), cur + 1, "ok")
      [] OTHER -> R(None, cur, "ok"))

\* The `for i in 0..255` loop of Parser::call: on a Comma it parses the next
\* argument without advancing past the Comma.
call_args(toks, args, cur, i) ==
  IF i >= 255 THEN [args |-> args, cur |-> cur, st |-> "ok"]
  ELSE IF ~peek_next(toks, cur, "Comma") THEN [args |-> args, cur |-> cur, st |-> "ok"]
  ELSE
    Bind(parse("expression", toks, cur), LAMBDA r :
    IF r.st # "ok" THEN [args |-> args, cur |-> r.cur, st |-> r.st]
    ELSE IF r.e = None THEN [args |-> args, cur |-> r.cur, st |-> "panic"]
    ELSE call_args(toks, Append(args, r.e), r.cur, i + 1))

\* The argument list of Parser::call, from the result of its first expression().
call_arguments(toks, first) ==
  IF first.e = None THEN [args |-> <<>>, cur |-> first.cur, st |-> "ok"]
  ELSE call_args(toks, <<first.e>>, first.cur, 0)

\* The `loop` of Parser::call, with `res` the callee parsed so far.
call_loop(toks, res, cur) ==
  IF peek_next(toks, cur, "LeftParen") THEN
    Bind(parse("expression", toks, cur + 1), LAMBDA first :
    IF first.st # "ok" THEN R(None, first.cur, first.st)
    ELSE
      Bind(call_arguments(toks, first), LAMBDA a :
      IF a.st # "ok" THEN R(None, a.cur, a.st)
      ELSE IF ~peek_next(toks, a.cur, "RightParen") THEN R(None, a.cur, "panic")
      ELSE IF res = None THEN R(None, a.cur + 1, "panic")
      ELSE call_loop(toks, Call(res, a.args), a.cur + 1)))
  ELSE IF peek_next(toks, cur, "Dot") THEN
    IF peek_next(toks, cur + 1, "Identifier") THEN
      IF res = None THEN R(None, cur + 2, "panic")
      ELSE call_loop(toks, Get(res, toks[cur + 2].value), cur + 2)
    ELSE call_loop(toks, res, cur + 1)
  ELSE R(res, cur, "ok")

call(toks, cur) ==
  Bind(primary(toks, cur), LAMBDA r :
  IF r.st # "ok" THEN r ELSE call_loop(toks, r.e, r.cur))

unary(toks, cur) ==
  IF cur < Len(toks) /\ toks[cur + 1].token_type \in {"Bang", "Minus"} THEN
    Bind(parse("unary", toks, cur + 1), LAMBDA r :
    IF r.st # "ok" THEN R(None, r.cur, r.st)
    ELSE IF r.e = None THEN R(None, r.cur, "panic")
    ELSE R(UnaryExpr(toks[cur + 1], r.e), r.cur, "ok"))
  ELSE call(toks, cur)

factor_loop(toks, lhs, cur) ==
  IF cur < Len(toks) /\ toks[cur + 1].token_type \in {"Slash", "Star", "Percent"} THEN
    Bind(parse("unary", toks, cur + 1), LAMBDA r :
    IF r.st # "ok" THEN R(None, r.cur, r.st)
    ELSE IF r.e = None THEN R(None, r.cur, "panic")
    ELSE factor_loop(toks, BinaryExpr(toks[cur + 1], r.e, lhs), r.cur))
  ELSE R(lhs, cur, "ok")

factor(toks, cur) ==
  Bind(unary(toks, cur), LAMBDA r :
  IF r.st # "ok" \/ r.e = None THEN r ELSE factor_loop(toks, r.e, r.cur))

\* term_loop with the right operand parsed by term itself, which groups a
\* chain of + and - to the right
term_loop_rassoc(toks, lhs, cur) ==
  IF cur < Len(toks) /\ toks[cur + 1].token_type \in {"Minus", "Plus"} THEN
    Bind(parse("term", toks, cur + 1), LAMBDA r :
    IF r.st # "ok" THEN R(None, r.cur, r.st)
    ELSE IF r.e = None THEN R(None, r.cur, "panic")
    ELSE R(BinaryExpr(toks[cur + 1], r.e, lhs), r.cur, "ok"))
  ELSE R(lhs, cur, "ok")

term_loop(toks, lhs, cur) ==
  IF cur < Len(toks) /\ toks[cur + 1].token_type \in {"Minus", "Plus"} THEN
    Bind(parse("factor", toks, cur + 1), LAMBDA r :
    IF r.st # "ok" THEN R(None, r.cur, r.st)
    ELSE IF r.e = None THEN R(None, r.cur, "panic")
    ELSE term_loop(toks, BinaryExpr(toks[cur + 1], r.e, lhs), r.cur))
  ELSE R(lhs, cur, "ok")

term(toks, cur) ==
  Bind(factor(toks, cur), LAMBDA r :
  IF r.st # "ok" \/ r.e = None THEN r ELSE term_loop(toks, r.e, r.cur))

comparison_loop(toks, lhs, cur) ==
  IF cur < Len(toks)
     /\ toks[cur + 1].token_type \in {"Greater", "GreaterEqual", "Less", "LessEqual"} THEN
    Bind(parse("term", toks, cur + 1), LAMBDA r :
    IF r.st # "ok" THEN R(None, r.cur, r.st)
    ELSE IF r.e = None THEN R(None, r.cur, "panic")
    ELSE comparison_loop(toks, BinaryExpr(toks[cur + 1], r.e, lhs), r.cur))
  ELSE R(lhs, cur, "ok")

comparison(toks, cur) ==
  Bind(term(toks, cur), LAMBDA r :
  IF r.st # "ok" \/ r.e = None THEN r ELSE comparison_loop(toks, r.e, r.cur))

equality_loop(toks, lhs, cur) ==
  IF cur < Len(toks) /\ toks[cur + 1].token_type \in {"BangEqual", "EqualEqual"} THEN
    Bind(parse("comparison", toks, cur + 1), LAMBDA r :
    IF r.st # "ok" THEN R(None, r.cur, r.st)
    ELSE IF r.e = None THEN R(None, r.cur, "panic")
    ELSE equality_loop(toks, BinaryExpr(toks[cur + 1], r.e, lhs), r.cur))
  ELSE R(lhs, cur, "ok")

equality(toks, cur) ==
  Bind(comparison(toks, cur), LAMBDA r :
  IF r.st # "ok" \/ r.e = None THEN r ELSE equality_loop(toks, r.e, r.cur))

logic_and(toks, cur) ==
  Bind(equality(toks, cur), LAMBDA l :
  IF l.st # "ok" THEN l
  ELSE IF peek_next(toks, l.cur, "And") /\ l.e # None THEN
    Bind(parse("equality", toks, l.cur + 1), LAMBDA r :
    IF r.st # "ok" THEN R(None, r.cur, r.st)
    ELSE IF r.e = None THEN R(None, r.cur, "panic")
    ELSE R(Logical(toks[l.cur + 1], r.e, l.e), r.cur, "ok"))
  ELSE l)

logic_or(toks, cur) ==
  Bind(logic_and(toks, cur), LAMBDA l :
  IF l.st # "ok" THEN l
  ELSE IF peek_next(toks, l.cur, "Or") /\ l.e # None THEN
    Bind(parse("logic_and", toks, l.cur + 1), LAMBDA r :
    IF r.st # "ok" THEN R(None, r.cur, r.st)
    ELSE IF r.e = None THEN R(None, r.cur, "panic")
    ELSE R(Logical(toks[l.cur + 1], r.e, l.e), r.cur, "ok"))
  ELSE l)

assignment(toks, cur) ==
  Bind(logic_or(toks, cur), LAMBDA l :
  IF l.st # "ok" \/ l.e = None THEN l
  ELSE IF l.cur < Len(toks) THEN
    CASE toks[l.cur + 1].token_type = "Equal" ->
           Bind(parse("assignment", toks, l.cur + 1), LAMBDA v :
           IF v.st # "ok" THEN R(None, v.cur, v.st)
           ELSE IF v.e = None THEN R(None, v.cur, "panic")
           ELSE R(Assignment(l.e, v.e), v.cur, "ok"))
      [] toks[l.cur + 1].token_type = "Or" ->
           Bind(parse("logic_or", toks, l.cur + 1), LAMBDA r :
           IF r.st # "ok" THEN R(None, r.cur, r.st)
           ELSE IF r.e = None THEN R(None, r.cur, "panic")
           ELSE R(Logical(toks[l.cur + 1], r.e, l.e), r.cur, "ok"))
      [] OTHER -> l
  ELSE R(None, l.cur, "ok"))

expression(toks, cur) == assignment(toks, cur)

(***************************************************************************)
(* Statement grammar                                                       *)
(***************************************************************************)
VarDeclaration(e, id) == [kind |-> "VarDeclaration", expr |-> e, identifier |-> id]

ClassDeclaration(id, fns) == [kind |-> "ClassDeclaration", identifier |-> id, functions |-> fns]

PrintStatement(e) == [kind |-> "PrintStatement", expr |-> e]

IfStatement(e, body, else_body) ==
  [kind |-> "IfStatement", expr |-> e, body |-> body, else_body |-> else_body]

FunStatement(id, args, blk) ==
  [kind |-> "FunStatement", identifier |-> id, args |-> args, block |-> blk]

WhileStatement(e, body) == [kind |-> "WhileStatement", expr |-> e, body |-> body]

ForStatement(init, cond, inc, body) ==
  [kind |-> "ForStatement", initiation |-> init, condition |-> cond,
   increment |-> inc, body |-> body]

BlockStatement(list) == [kind |-> "BlockStatement", statements |-> list]

ReturnStatement(e) == [kind |-> "ReturnStatement", expr |-> e]

Stmt(e) == [kind |-> "Stmt", expr |-> e]

RECURSIVE declaration(_, _)
RECURSIVE expression_statement(_, _)
RECURSIVE print_statement(_, _)
RECURSIVE return_stmt(_, _)
RECURSIVE variable_declaration(_, _)
RECURSIVE statement_get(_, _)
RECURSIVE if_statement(_, _)
RECURSIVE function(_, _)
RECURSIVE function_args(_, _, _)
RECURSIVE while_block(_, _)
RECURSIVE for_loop(_, _)
RECURSIVE block(_, _)
RECURSIVE block_loop(_, _, _)
RECURSIVE class_declaration(_, _)
RECURSIVE class_loop(_, _, _)

expression_statement(toks, cur) ==
  Bind(parse("expression", toks, cur), LAMBDA r :
  IF r.st # "ok" \/ r.e = None THEN r
  ELSE
    Bind(consume(toks, r.cur, "Semicolon"), LAMBDA c :
    IF c.st # "ok" THEN c ELSE R(Stmt(r.e), c.cur, "ok")))

print_statement(toks, cur) ==
  Bind(parse("expression", toks, cur + 1), LAMBDA r :
  IF r.st # "ok" THEN r
  ELSE
    Bind(consume(toks, r.cur, "Semicolon"), LAMBDA c :
    IF c.st # "ok" THEN c
    ELSE IF r.e = None THEN R(None, c.cur, "panic")
    ELSE R(PrintStatement(r.e), c.cur, "ok")))

return_stmt(toks, cur) ==
  IF cur + 1 >= Len(toks) THEN R(None, cur + 1, "oob")
  ELSE IF toks[cur + 2].token_type = "Semicolon" THEN R(ReturnStatement(None), cur + 2, "ok")
  ELSE
    Bind(parse("expression", toks, cur + 1), LAMBDA r :
    IF r.st # "ok" THEN r
    ELSE IF r.e = None THEN R(None, r.cur, "panic")
    ELSE IF peek_next(toks, r.cur, "Semicolon") THEN R(ReturnStatement(r.e), r.cur + 1, "ok")
    ELSE R(None, r.cur, "panic"))

variable_declaration(toks, cur) ==
  Bind(parse("primary", toks, cur + 1), LAMBDA p :
  IF p.st # "ok" THEN p
  ELSE IF p.cur >= Len(toks) THEN R(None, p.cur, "oob")
  ELSE IF toks[p.cur + 1].token_type = "Equal" THEN
    Bind(parse("expression", toks, p.cur + 1), LAMBDA r :
    IF r.st # "ok" THEN r
    ELSE
      Bind(consume(toks, r.cur, "Semicolon"), LAMBDA c :
      IF c.st # "ok" THEN c
      ELSE IF p.e = None THEN R(None, c.cur, "panic")
      ELSE R(VarDeclaration(r.e, p.e), c.cur, "ok")))
  ELSE
    Bind(consume(toks, p.cur, "Semicolon"), LAMBDA c :
    IF c.st # "ok" THEN c
    ELSE IF p.e = None THEN R(None, c.cur, "panic")
    ELSE R(VarDeclaration(VariableExpr("Nil", <<>>), p.e), c.cur, "ok")))

\* The while loop of Parser::block. declaration() is a function of the
\* cursor alone, so an iteration that yields None and leaves the cursor in
\* place repeats forever: that is the outcome "hang".
block_loop(toks, list, cur) ==
  IF cur < Len(toks) /\ toks[cur + 1].token_type # "RightBrace" THEN
    Bind(parse("declaration", toks, cur), LAMBDA d :
    IF d.st # "ok" THEN R(None, d.cur, d.st)
    ELSE IF d.e = None THEN
      IF d.cur = cur THEN R(None, cur, "hang") ELSE block_loop(toks, list, d.cur)
    ELSE block_loop(toks, Append(list, d.e), d.cur))
  ELSE IF cur >= Len(toks) THEN R(None, cur, "oob")
  ELSE R(BlockStatement(list), cur + 1, "ok")

block(toks, cur) == block_loop(toks, <<>>, cur + 1)

if_statement(toks, cur) ==
  Bind(consume(toks, cur + 1, "LeftParen"), LAMBDA c1 :
  IF c1.st # "ok" THEN c1
  ELSE
    Bind(parse("expression", toks, c1.cur), LAMBDA r :
    IF r.st # "ok" THEN r
    ELSE IF r.e = None THEN R(None, r.cur, "panic")
    ELSE
      Bind(consume(toks, r.cur, "RightParen"), LAMBDA c2 :
      IF c2.st # "ok" THEN c2
      ELSE
        Bind(parse("block", toks, c2.cur), LAMBDA b :
        IF b.st # "ok" THEN b
        ELSE IF peek_next(toks, b.cur, "Else") THEN
          IF peek_next(toks, b.cur + 1, "LeftBrace") THEN
            Bind(parse("block", toks, b.cur + 1), LAMBDA e :
            IF e.st # "ok" THEN e
            ELSE R(IfStatement(r.e, b.e, e.e), e.cur, "ok"))
          ELSE R(None, b.cur + 1, "panic")
        ELSE R(IfStatement(r.e, b.e, None), b.cur, "ok")))))

\* The parameter loop of Parser::function.
function_args(toks, args, cur) ==
  IF peek_next(toks, cur, "RightParen") THEN [args |-> args, cur |-> cur, st |-> "ok"]
  ELSE
    Bind(parse("expression", toks, cur), LAMBDA r :
    IF r.st # "ok" THEN [args |-> args, cur |-> r.cur, st |-> r.st]
    ELSE IF r.e = None THEN [args |-> args, cur |-> r.cur, st |-> "panic"]
    ELSE IF peek_next(toks, r.cur, "Comma") THEN
      IF peek_next(toks, r.cur + 1, "RightParen")
      THEN [args |-> args, cur |-> r.cur + 1, st |-> "panic"]
      ELSE function_args(toks, Append(args, r.e), r.cur + 1)
    ELSE function_args(toks, Append(args, r.e), r.cur))

function(toks, cur) ==
  IF cur >= Len(toks) THEN R(None, cur, "oob")
  ELSE IF toks[cur + 1].token_type # "Identifier" THEN R(None, cur, "panic")
  ELSE
    Bind(consume(toks, cur + 1, "LeftParen"), LAMBDA c1 :
    IF c1.st # "ok" THEN c1
    ELSE
      Bind(function_args(toks, <<>>, c1.cur), LAMBDA a :
      IF a.st # "ok" THEN R(None, a.cur, a.st)
      ELSE
        Bind(consume(toks, a.cur, "RightParen"), LAMBDA c2 :
        IF c2.st # "ok" THEN c2
        ELSE
          Bind(parse("block", toks, c2.cur), LAMBDA b :
          IF b.st # "ok" THEN b
          ELSE R(FunStatement(toks[cur + 1], a.args, b.e), b.cur, "ok")))))

while_block(toks, cur) ==
  Bind(consume(toks, cur + 1, "LeftParen"), LAMBDA c1 :
  IF c1.st # "ok" THEN c1
  ELSE
    Bind(parse("expression", toks, c1.cur), LAMBDA r :
    IF r.st # "ok" THEN r
    ELSE IF r.e = None THEN R(None, r.cur, "panic")
    ELSE
      Bind(consume(toks, r.cur, "RightParen"), LAMBDA c2 :
      IF c2.st # "ok" THEN c2
      ELSE
        Bind(parse("declaration", toks, c2.cur), LAMBDA d :
        IF d.st # "ok" THEN d
        ELSE IF d.e = None THEN R(None, d.cur, "panic")
        ELSE R(WhileStatement(r.e, d.e), d.cur, "ok")))))

\* condition and increment of Parser::for_loop: the same code twice.
for_clause(toks, cur) ==
  IF ~peek_next(toks, cur, "Semicolon") THEN parse("expression_statement", toks, cur)
  ELSE consume(toks, cur, "Semicolon")

\* initiation of Parser::for_loop
for_init(toks, cur) ==
  CASE toks[cur + 1].token_type = "Var" -> parse("declaration", toks, cur)
    [] toks[cur + 1].token_type = "Semicolon" -> R(None, cur, "ok")
    [] OTHER -> parse("expression_statement", toks, cur)

for_loop(toks, cur) ==
  Bind(consume(toks, cur + 1, "LeftParen"), LAMBDA c1 :
  IF c1.st # "ok" THEN c1
  ELSE IF c1.cur >= Len(toks) THEN R(None, c1.cur, "oob")
  ELSE
    Bind(for_init(toks, c1.cur), LAMBDA init :
    IF init.st # "ok" THEN init
    ELSE
      Bind(for_clause(toks, init.cur), LAMBDA cond :
      IF cond.st # "ok" THEN cond
      ELSE
        Bind(for_clause(toks, cond.cur), LAMBDA inc :
        IF inc.st # "ok" THEN inc
        ELSE
          Bind(consume(toks, inc.cur, "RightParen"), LAMBDA c2 :
          IF c2.st # "ok" THEN c2
          ELSE
            Bind(parse("declaration", toks, c2.cur), LAMBDA body :
            IF body.st # "ok" THEN body
            ELSE IF body.e = None THEN R(None, body.cur, "panic")
            ELSE
              Bind(ForStatement(init.e, cond.e, inc.e, body.e), LAMBDA f :
              IF peek_next(toks, body.cur, "Else") THEN
                IF body.cur + 1 >= Len(toks) THEN R(None, body.cur + 1, "oob")
                ELSE
                  Bind(parse("declaration", toks, body.cur + 1), LAMBDA e :
                  IF e.st # "ok" THEN e ELSE R(f, e.cur, "ok"))
              ELSE R(f, body.cur, "ok"))))))))

\* The method loop of Parser::class_declaration.
class_loop(toks, functions, cur) ==
  IF ~peek_next(toks, cur, "RightBrace") THEN
    Bind(parse("function", toks, cur), LAMBDA f :
    IF f.st # "ok" THEN [functions |-> functions, cur |-> f.cur, st |-> f.st]
    ELSE class_loop(toks, Append(functions, f.e), f.cur))
  ELSE [functions |-> functions, cur |-> cur, st |-> "ok"]

class_declaration(toks, cur) ==
  IF cur + 1 >= Len(toks) THEN R(None, cur + 1, "oob")
  ELSE IF toks[cur + 2].token_type # "Identifier" THEN R(None, cur + 1, "panic")
  ELSE IF ~peek_next(toks, cur + 2, "LeftBrace") THEN R(None, cur + 2, "panic")
  ELSE
    Bind(class_loop(toks, <<>>, cur + 3), LAMBDA l :
    IF l.st # "ok" THEN R(None, l.cur, l.st)
    ELSE R(ClassDeclaration(toks[cur + 2], l.functions), l.cur + 1, "ok"))

statement_get(toks, cur) ==
  IF cur >= Len(toks) THEN R(None, cur, "oob")
  ELSE
    CASE toks[cur + 1].token_type = "Print" -> print_statement(toks, cur)
      [] toks[cur + 1].token_type = "If" -> if_statement(toks, cur)
      [] toks[cur + 1].token_type = "Fun" -> function(toks, cur + 1)
      [] toks[cur + 1].token_type = "While" -> while_block(toks, cur)
      [] toks[cur + 1].token_type = "For" -> for_loop(toks, cur)
      [] toks[cur + 1].token_type = "LeftBrace" -> block(toks, cur)
      [] toks[cur + 1].token_type = "Return" -> return_stmt(toks, cur)
      [] OTHER -> expression_statement(toks, cur)

declaration(toks, cur) ==
  IF cur >= Len(toks) THEN R(None, cur, "oob")
  ELSE
    CASE toks[cur + 1].token_type = "Var" -> variable_declaration(toks, cur)
      [] toks[cur + 1].token_type = "Class" -> class_declaration(toks, cur)
      [] OTHER -> statement_get(toks, cur)

\* A call of one parser method from another: self.<rule>()
parse(rule, toks, cur) ==
  CASE rule = "expression" -> expression(toks, cur)
    [] rule = "assignment" -> assignment(toks, cur)
    [] rule = "logic_or" -> logic_or(toks, cur)
    [] rule = "logic_and" -> logic_and(toks, cur)
    [] rule = "equality" -> equality(toks, cur)
    [] rule = "comparison" -> comparison(toks, cur)
    [] rule = "term" -> term(toks, cur)
    [] rule = "factor" -> factor(toks, cur)
    [] rule = "unary" -> unary(toks, cur)
    [] rule = "call" -> call(toks, cur)
    [] rule = "primary" -> primary(toks, cur)
    [] rule = "declaration" -> declaration(toks, cur)
    [] rule = "statement_get" -> statement_get(toks, cur)
    [] rule = "if_statement" -> if_statement(toks, cur)
    [] rule = "function" -> function(toks, cur)
    [] rule = "while_block" -> while_block(toks, cur)
    [] rule = "for_loop" -> for_loop(toks, cur)
    [] rule = "block" -> block(toks, cur)
    [] rule = "class_declaration" -> class_declaration(toks, cur)
    [] rule = "expression_statement" -> expression_statement(toks, cur)
    [] rule = "print_statement" -> print_statement(toks, cur)
    [] rule = "return_stmt" -> return_stmt(toks, cur)
    [] rule = "variable_declaration" -> variable_declaration(toks, cur)

(***************************************************************************)
(* Runtime values: ExpressionRes                                           *)
(***************************************************************************)
NoRef == [kind |-> "None"]

ExpressionRes(t, s, n, b, m, c, i) ==
  [type_ |-> t, str |-> s, number |-> n, boolean |-> b,
   method |-> m, class |-> c, instance |-> i]

\* The literal texts of expression.rs
S_nil == <<"n", "i", "l">>

S_true == <<"t", "r", "u", "e">>

S_false == <<"f", "a", "l", "s", "e">>

S_class_sp == <<"c", "l", "a", "s", "s", " ">>

S_class_colon == <<"c", "l", "a", "s", "s", " ", ":">>

S_function_colon == <<"f", "u", "n", "c", "t", "i", "o", "n", " ", ":">>

S_instance_of_object ==
  <<"i", "n", "s", "t", "a", "n", "c", "e", " ", "o", "f", " ", "o", "b", "j", "e", "c", "t">>

S_instance_colon == <<"i", "n", "s", "t", "a", "n", "c", "e", " ", ":", " ">>

\* The line the Call arm prints when the argument count differs from the
\* declared parameter count
S_arity_report ==
  <<"{", " ", "w", "o", "w", ",", " ", "s", "o", " ", "w", "e", "i", "r",
    "d", ",", " ", "t", "h", "i", "s", " ", "l", "o", "o", "k", " ", "l",
    "i", "k", "e", " ", "p", "a", "s", "s", "e", "d", " ", "a", "r", "g",
    "s", " ", "a", "r", "e", " ", "n", "o", "t", " ", "s", "a", "m", "e",
    " ", "a", "s", " ", "d", "e", "c", "l", "a", "r", "e", "d", " ", "d",
    "e", "f", "i", "n", "i", "t", "i", "o", "n", " ", "}">>

\* The line the BinaryExpr arm prints when no branch applies
S_binary_error ==
  <<"T", "h", "e", "r", "e", " ", "h", "a", "s", " ", "b", "e", "e", "n",
    " ", "a", "n", " ", "e", "r", "r", "o", "r", " ", "i", "n", " ", "a",
    " ", "b", "i", "n", "a", "r", "y", " ", "o", "p", "e", "r", "a", "t",
    "i", "o", "n">>

from_str(s) == ExpressionRes("String", s, 0, FALSE, NoRef, NoRef, NoRef)

from_number(n) == ExpressionRes("Number", <<>>, n, FALSE, NoRef, NoRef, NoRef)

from_bool(b) == ExpressionRes("Boolean", <<>>, 0, b, NoRef, NoRef, NoRef)

from_variable(s) == ExpressionRes("Identifier", s, 0, FALSE, NoRef, NoRef, NoRef)

from_method(method) == ExpressionRes("Function", method.name, 0, FALSE, method, NoRef, NoRef)

from_class(class) ==
  ExpressionRes("Class", S_class_sp \o class.name, 0, FALSE, NoRef, class, NoRef)

from_instance(instance) ==
  ExpressionRes("Instance", S_instance_of_object, 0, FALSE, NoRef, NoRef, instance)

from_none == ExpressionRes("Nil", S_nil, 0, FALSE, NoRef, NoRef, NoRef)

\* ExpressionRes::copy: the tag and the primitive payloads are cloned, the
\* three object references are set to None.
copy(p) == ExpressionRes(p.type_, p.str, p.number, p.boolean, NoRef, NoRef, NoRef)

eq_type(a, b) == a.type_ = b.type_

\* isize::to_string
DigitChars == <<"0", "1", "2", "3", "4", "5", "6", "7", "8", "9">>

RECURSIVE nat_to_string(_)
nat_to_string(n) ==
  IF n < 10 THEN <<DigitChars[n + 1]>>
  ELSE nat_to_string(n \div 10) \o <<DigitChars[(n % 10) + 1]>>

to_string(n) == IF n < 0 THEN <<"-">> \o nat_to_string(0 - n) ELSE nat_to_string(n)

\* str::parse::<isize>: an optional sign and decimal digits; anything else is
\* an Err, which the evaluator unwraps.
DigitVal(c) == CHOOSE d \in 0..9 : DigitChars[d + 1] = c

IsDigits(s) == Len(s) > 0 /\ \A k \in 1..Len(s) : \E d \in 0..9 : DigitChars[d + 1] = s[k]

RECURSIVE digits_value(_)
digits_value(s) ==
  IF Len(s) = 0 THEN 0
  ELSE 10 * digits_value(SubSeq(s, 1, Len(s) - 1)) + DigitVal(s[Len(s)])

parse_ok(s) ==
  IF Len(s) > 0 /\ s[1] \in {"-", "+"} THEN IsDigits(Tail(s)) ELSE IsDigits(s)

parse_isize(s) ==
  IF s[1] = "-" THEN 0 - digits_value(Tail(s))
  ELSE IF s[1] = "+" THEN digits_value(Tail(s))
  ELSE digits_value(s)

\* The Debug rendering of Option<Rc<RefCell<Instance>>> that print() appends
\* for an Instance; only its being some text matters here.
instance_debug(v) == <<"S", "o", "m", "e", "(">> \o v.instance.class.name \o <<")">>

\* ExpressionRes::print
print(v) ==
  CASE v.type_ = "String" -> v.str
    [] v.type_ = "Number" -> to_string(v.number)
    [] v.type_ = "Boolean" -> IF v.boolean THEN S_true ELSE S_false
    [] v.type_ = "Nil" -> S_nil
    [] v.type_ = "Identifier" -> v.str
    [] v.type_ = "Function" -> S_function_colon \o v.str
    [] v.type_ = "Class" -> S_class_colon \o v.str
    [] v.type_ = "Instance" -> S_instance_colon \o instance_debug(v)

get_params_method(v) == [k \in 1..Len(v.method.args) |-> v.method.args[k].str]

(***************************************************************************)
(* Integer arithmetic of the Number branch                                 *)
(***************************************************************************)
\* isize is modelled WordBits wide (64 on the usual targets): the range and
\* the wrap are the two's-complement ones of that width.
WordBits == 8

isize_MAX == 2 ^ (WordBits - 1) - 1

isize_MIN == 0 - 2 ^ (WordBits - 1)

in_isize(n) == isize_MIN <= n /\ n <= isize_MAX

\* The value of n reduced modulo 2^WordBits into isize_MIN..isize_MAX
wrapping(n) == ((n - isize_MIN) % (2 ^ WordBits)) + isize_MIN

\* isize::MIN / -1 and isize::MIN % -1 panic in every build
div_overflows(a, b) == a = isize_MIN /\ b = 0 - 1

Abs(n) == IF n < 0 THEN 0 - n ELSE n

\* isize `/`: the quotient truncated toward zero
num_div(a, b) ==
  IF (a < 0) = (b < 0) THEN Abs(a) \div Abs(b) ELSE 0 - (Abs(a) \div Abs(b))

\* isize `%` as used inside rem_euclid: the remainder that goes with num_div
num_rem(a, b) == a - b * num_div(a, b)

\* rem_euclid without the adjustment of a negative remainder: the remainder
\* keeps the sign of the dividend
rem_euclid_trunc(a, b) == num_rem(a, b)

\* isize::rem_euclid
rem_euclid(a, b) ==
  Bind(num_rem(a, b), LAMBDA r :
  IF r < 0 THEN (IF b < 0 THEN r - b ELSE r + b) ELSE r)

(***************************************************************************)
(* Environments.  A heap of scopes; a scope is a map from names to values  *)
(* plus the id of its enclosing scope (0 for none).  An Rc<RefCell<        *)
(* Environment>> is the id of a scope.                                     *)
(***************************************************************************)
Environment(enc) == [values |-> <<>>, enclosing |-> enc]

RECURSIVE scope_of(_, _, _)
scope_of(heap, id, name) ==
  IF id = 0 THEN 0
  ELSE IF name \in DOMAIN heap[id].values THEN id
  ELSE scope_of(heap, heap[id].enclosing, name)

defined(heap, env, name) == scope_of(heap, env, name) # 0

lookup_var(heap, env, name) == heap[scope_of(heap, env, name)].values[name]

get_variable(heap, env, name) ==
  IF name \in DOMAIN heap[env].values THEN heap[env].values[name] ELSE None

define_variable(heap, env, name, v) ==
  [heap EXCEPT ![env].values = (name :> v) @@ @]

assign_to_existing(heap, env, name, v) ==
  [heap EXCEPT ![scope_of(heap, env, name)].values[name] = v]

remove_var(heap, env, name) ==
  Bind(scope_of(heap, env, name), LAMBDA s :
  IF s = 0 THEN heap
  ELSE [heap EXCEPT ![s].values = [n \in (DOMAIN @) \ {name} |-> @[n]]])

(***************************************************************************)
(* The evaluator.  A machine state m is [heap, out, st]: the scopes, the   *)
(* lines printed, and "ok" or the reason evaluation aborted ("panic" for a *)
(* Rust panic, "stack" when the recursion ceiling MaxDepth is hit).        *)
(* eval and exec return the value together with the machine state.         *)
(***************************************************************************)
MaxDepth == 4

Method(name, args, body, captured_env) ==
  [name |-> name, args |-> args, body |-> body, captured_env |-> captured_env]

Class(name, args, methods) == [name |-> name, args |-> args, methods |-> methods]

Instance(class, env) == [class |-> class, env |-> env]

ER(res, m) == [res |-> res, m |-> m]

Fail(m, why) == [m EXCEPT !.st = why]

SR(ret, res, m) == [ret |-> ret, res |-> res, m |-> m]

RECURSIVE eval(_, _, _, _)
RECURSIVE eval_args(_, _, _, _, _, _, _, _)
RECURSIVE bind_methods(_, _, _, _, _)
RECURSIVE bind_methods_template(_, _, _, _, _)
RECURSIVE exec(_, _, _, _)
RECURSIVE exec_list(_, _, _, _, _)
RECURSIVE method_call(_, _, _, _)

\* println!: one more line on standard output
println(m, line) == [m EXCEPT !.out = Append(@, line)]

\* The result n of `+`, `-`, `*` or unary `-` on isize: n itself when it is
\* representable; otherwise the panic "attempt to ... with overflow" of a
\* build with overflow checks, or the two's-complement wrap of one without.
arith(n, m) ==
  IF in_isize(n) THEN ER(from_number(n), m)
  ELSE IF m.oc THEN ER(from_none, Fail(m, "panic"))
  ELSE ER(from_number(wrapping(n)), m)

\* `if res.type_ == Identifier { res = copy(lookup_var(res.str)) }`, the
\* dereference the Binary, Logical and Call arms apply to an operand.
resolve_operand(v, env, m) ==
  IF v.type_ # "Identifier" THEN ER(v, m)
  ELSE IF ~defined(m.heap, env, v.str) THEN ER(from_none, Fail(m, "panic"))
  ELSE ER(copy(lookup_var(m.heap, env, v.str)), m)

\* The Number and String branches of the BinaryExpr arm
binary_op(tt, l, r, m) ==
  IF l.type_ = "Number" /\ eq_type(l, r) THEN
    CASE tt = "Greater" -> ER(from_bool(l.number > r.number), m)
      [] tt = "GreaterEqual" -> ER(from_bool(l.number >= r.number), m)
      [] tt = "Less" -> ER(from_bool(l.number < r.number), m)
      [] tt = "LessEqual" -> ER(from_bool(l.number <= r.number), m)
      [] tt = "EqualEqual" -> ER(from_bool(l.number = r.number), m)
      [] tt = "Minus" -> arith(l.number - r.number, m)
      [] tt = "Slash" ->
           IF r.number = 0 \/ div_overflows(l.number, r.number)
           THEN ER(from_none, Fail(m, "panic"))
           ELSE ER(from_number(num_div(l.number, r.number)), m)
      [] tt = "Star" -> arith(l.number * r.number, m)
      [] tt = "Plus" -> arith(l.number + r.number, m)
      [] tt = "Percent" ->
           IF r.number = 0 \/ div_overflows(l.number, r.number)
           THEN ER(from_none, Fail(m, "panic"))
           ELSE ER(from_number(rem_euclid(l.number, r.number)), m)
      [] OTHER -> ER(from_none, m)
  ELSE IF l.type_ = "String" /\ eq_type(l, r) THEN
    CASE tt = "Plus" -> ER(from_str(l.str \o r.str), m)
      [] tt = "EqualEqual" -> ER(from_bool(l.str = r.str), m)
      [] OTHER -> ER(from_none, m)
  ELSE ER(from_none, println(m, S_binary_error))

\* The match of the UnaryExpr arm
unary_op(tt, v, m) ==
  CASE v.type_ = "Number" /\ tt = "Minus" -> arith(0 - v.number, m)
    [] v.type_ = "Boolean" /\ tt = "Bang" -> ER(from_bool(~v.boolean), m)
    [] OTHER -> ER(from_none, m)

\* The match of the Logical arm
logical_op(tt, l, r, m) ==
  IF l.type_ = "Boolean" /\ eq_type(l, r) THEN
    CASE tt = "And" -> ER(from_bool(l.boolean /\ r.boolean), m)
      [] tt = "Or" -> ER(from_bool(l.boolean \/ r.boolean), m)
      [] OTHER -> ER(from_none, Fail(m, "panic"))
  ELSE ER(from_none, Fail(m, "panic"))

\* The match on value.type_ of the Assignment arm
assign_op(assignee, value, env, m) ==
  CASE value.type_ = "Identifier" ->
         IF ~defined(m.heap, env, value.str) THEN ER(from_none, Fail(m, "panic"))
         ELSE ER(copy(value),
                 [m EXCEPT !.heap = assign_to_existing(m.heap, env, value.str, copy(value))])
    [] value.type_ = "Function" -> ER(value, m)
    [] value.type_ = "Nil" ->
         ER(from_none, [m EXCEPT !.heap = remove_var(m.heap, env, assignee.str)])
    [] OTHER ->
         IF ~defined(m.heap, env, assignee.str) THEN ER(from_none, Fail(m, "panic"))
         ELSE ER(copy(value),
                 [m EXCEPT !.heap = assign_to_existing(m.heap, env, assignee.str, value)])

\* arguments_env with the captured scope copied: the call's scope encloses a
\* snapshot of the closure's environment instead of the environment itself
arguments_env_by_value(heap, callable) ==
  Append(Append(heap, heap[callable.method.captured_env]), Environment(Len(heap) + 1))

\* The environment a Function call hands to Method::call: a fresh scope
\* enclosing the method's captured_env.  Returns the heap with the scope added.
arguments_env(heap, callable) == Append(heap, Environment(callable.method.captured_env))

\* The `for arg in args` loops of the Call arm: each argument is evaluated in
\* the caller's environment, dereferenced and copied if it is an Identifier,
\* and defined under names[i] in the scope `target`.  `held` is the scope and
\* name of the callee's cell, which the match on callable.borrow() keeps
\* borrowed (<<0, <<>>>> for a callee not in a variable): borrow_mut of that
\* same cell panics.
resolve_arg(v, held, env, m) ==
  IF v.type_ # "Identifier" THEN ER(v, m)
  ELSE IF <<scope_of(m.heap, env, v.str), v.str>> = held THEN ER(from_none, Fail(m, "panic"))
  ELSE resolve_operand(v, env, m)

eval_args(args, i, names, target, held, env, m, d) ==
  IF i > Len(args) THEN m
  ELSE
    Bind(eval(args[i], env, m, d), LAMBDA a :
    IF a.m.st # "ok" THEN a.m
    ELSE
      Bind(resolve_arg(a.res, held, env, a.m), LAMBDA r :
      IF r.m.st # "ok" THEN r.m
      ELSE IF i > Len(names) THEN Fail(r.m, "panic")
      ELSE eval_args(args, i + 1, names, target, held, env,
                     [r.m EXCEPT !.heap = define_variable(r.m.heap, target, names[i], r.res)], d)))

\* bind_methods without the overwrite of captured_env: each method is defined
\* with the captured environment of its template
bind_methods_template(heap, methods, k, fields, menv) ==
  IF k > Len(methods) THEN heap
  ELSE bind_methods_template(define_variable(heap, menv, methods[k].name, from_method(methods[k])),
                             methods, k + 1, fields, menv)

\* The `for method_class in methods` loop of the Class branch
bind_methods(heap, methods, k, fields, menv) ==
  IF k > Len(methods) THEN heap
  ELSE
    Bind([methods[k] EXCEPT !.captured_env = fields], LAMBDA binding_method :
    bind_methods(define_variable(heap, menv, binding_method.name, from_method(binding_method)),
                 methods, k + 1, fields, menv))

\* `if names.len() != args.len() { println!(...) }`
arity_report(names, args, m) ==
  IF Len(names) # Len(args) THEN println(m, S_arity_report) ELSE m

\* The Function branch of the Call arm.  `held` names the callee's cell when
\* the callee was reached through a variable.
call_function(callable, args, held, env, m, d) ==
  IF callable.method = NoRef THEN ER(from_none, Fail(m, "panic"))
  ELSE
    Bind([m EXCEPT !.heap = arguments_env(m.heap, callable)], LAMBDA m1 :
    Bind(eval_args(args, 1, get_params_method(callable), Len(m1.heap), held, env,
                   arity_report(get_params_method(callable), args, m1), d), LAMBDA m2 :
    IF m2.st # "ok" THEN ER(from_none, m2)
    ELSE
      Bind(method_call(callable.method.body, Len(m1.heap), m2, d - 1), LAMBDA result :
      IF result.m.st # "ok" THEN ER(from_none, result.m)
      ELSE IF result.ret = "Void" THEN ER(from_none, result.m)
      ELSE ER(result.res, result.m))))

\* `for dec_arg in &class.args { declared_parameters.push(dec_arg.str) }`
declared_parameters(callable) ==
  [k \in 1..Len(callable.class.args) |-> callable.class.args[k].str]

\* The Class branch of the Call arm
call_class(callable, args, held, env, m, d) ==
  IF callable.class = NoRef THEN ER(from_none, Fail(m, "panic"))
  ELSE
    Bind([m EXCEPT !.heap = Append(m.heap, Environment(0))], LAMBDA m1 :
    Bind(eval_args(args, 1, declared_parameters(callable), Len(m1.heap), held, env,
                   arity_report(declared_parameters(callable), args, m1), d), LAMBDA m2 :
    IF m2.st # "ok" THEN ER(from_none, m2)
    ELSE
      Bind(Append(m2.heap, Environment(Len(m1.heap))), LAMBDA h2 :
      ER(from_instance(Instance(callable.class, Len(h2))),
         [m2 EXCEPT !.heap = bind_methods(h2, callable.class.methods, 1, Len(m1.heap), Len(h2))]))))

\* Method::prepare_for_call
prepare_for_call(method, fresh) == [method EXCEPT !.captured_env = fresh]

\* ExpressionInterpreter::eval
eval(e, env, m, d) ==
  IF d = 0 THEN ER(from_none, Fail(m, "stack"))
  ELSE
  CASE e.kind = "GroupingExpr" -> eval(e.value, env, m, d)
    [] e.kind = "BinaryExpr" ->
         Bind(eval(e.rhs, env, m, d), LAMBDA r :
         IF r.m.st # "ok" THEN r
         ELSE
           Bind(eval(e.lhs, env, r.m, d), LAMBDA l :
           IF l.m.st # "ok" THEN l
           ELSE
             Bind(resolve_operand(r.res, env, l.m), LAMBDA rr :
             IF rr.m.st # "ok" THEN rr
             ELSE
               Bind(resolve_operand(l.res, env, rr.m), LAMBDA lr :
               IF lr.m.st # "ok" THEN lr
               ELSE binary_op(e.token.token_type, lr.res, rr.res, lr.m)))))
    [] e.kind = "UnaryExpr" ->
         Bind(eval(e.rhs, env, m, d), LAMBDA r :
         IF r.m.st # "ok" THEN r
         ELSE unary_op(e.token.token_type, r.res, r.m))
    [] e.kind = "LiteralExpr" ->
         CASE e.token_type = "String" -> ER(from_str(e.value), m)
           [] e.token_type = "Number" ->
                IF parse_ok(e.value) /\ in_isize(parse_isize(e.value))
                THEN ER(from_number(parse_isize(e.value)), m)
                ELSE ER(from_none, Fail(m, "panic"))
           [] e.token_type = "False" -> ER(from_bool(FALSE), m)
           [] e.token_type = "True" -> ER(from_bool(TRUE), m)
           [] OTHER -> ER(from_none, m)
    [] e.kind = "VariableExpr" ->
         IF e.token_type = "Nil" THEN ER(from_none, m) ELSE ER(from_variable(e.value), m)
    [] e.kind = "Assignment" ->
         Bind(eval(e.identifier, env, m, d), LAMBDA assignee :
         IF assignee.m.st # "ok" THEN assignee
         ELSE
           Bind(eval(e.value, env, assignee.m, d), LAMBDA value :
           IF value.m.st # "ok" THEN value
           ELSE assign_op(assignee.res, value.res, env, value.m)))
    [] e.kind = "Logical" ->
         Bind(eval(e.rhs, env, m, d), LAMBDA r :
         IF r.m.st # "ok" THEN r
         ELSE
           Bind(eval(e.lhs, env, r.m, d), LAMBDA l :
           IF l.m.st # "ok" THEN l
           ELSE
             Bind(resolve_operand(r.res, env, l.m), LAMBDA rr :
             IF rr.m.st # "ok" THEN rr
             ELSE
               Bind(resolve_operand(l.res, env, rr.m), LAMBDA lr :
               IF lr.m.st # "ok" THEN lr
               ELSE logical_op(e.token.token_type, lr.res, rr.res, lr.m)))))
    [] e.kind = "Call" ->
         Bind(eval(e.identifier, env, m, d), LAMBDA res3 :
         IF res3.m.st # "ok" THEN res3
         ELSE IF res3.res.type_ = "Identifier" /\ ~defined(res3.m.heap, env, res3.res.str)
           THEN ER(from_none, Fail(res3.m, "panic"))
         ELSE
           LET byName == res3.res.type_ = "Identifier"
               callable == IF byName THEN lookup_var(res3.m.heap, env, res3.res.str)
                           ELSE res3.res
               held == IF byName
                       THEN <<scope_of(res3.m.heap, env, res3.res.str), res3.res.str>>
                       ELSE <<0, <<>>>>
           IN
           CASE callable.type_ = "Function" ->
                  call_function(callable, e.args, held, env, res3.m, d)
             [] callable.type_ = "Class" ->
                  call_class(callable, e.args, held, env, res3.m, d)
             [] OTHER -> ER(from_none, Fail(res3.m, "panic")))
    [] e.kind = "Get" ->
         Bind(eval(e.expr, env, m, d), LAMBDA res1 :
         IF res1.m.st # "ok" THEN res1
         ELSE IF res1.res.type_ # "Identifier" THEN ER(from_none, Fail(res1.m, "panic"))
         ELSE IF ~defined(res1.m.heap, env, res1.res.str)
           THEN ER(from_none, Fail(res1.m, "panic"))
         ELSE
           Bind(lookup_var(res1.m.heap, env, res1.res.str), LAMBDA rc :
           IF rc.type_ # "Instance" THEN ER(from_none, Fail(res1.m, "panic"))
           ELSE
             Bind(get_variable(res1.m.heap, rc.instance.env, e.name), LAMBDA option :
             IF option = None THEN ER(from_none, Fail(res1.m, "panic"))
             ELSE IF option.method = NoRef THEN ER(from_none, Fail(res1.m, "panic"))
             ELSE
               Bind(Append(res1.m.heap, Environment(rc.instance.env)), LAMBDA h1 :
               ER(from_method(prepare_for_call(option.method, Len(h1))),
                  [res1.m EXCEPT !.heap = h1])))))
    [] OTHER -> ER(from_none, Fail(m, "panic"))

(***************************************************************************)
(* The statement interpreter (crate::statements::stmt_visitor), which the  *)
(* evaluator calls through Method::call.                                   *)
(***************************************************************************)
\* The value a statement uses: an Identifier result is replaced by the value
\* bound to the name, object references included.
deref(v, env, m) ==
  IF v.type_ # "Identifier" THEN ER(v, m)
  ELSE IF ~defined(m.heap, env, v.str) THEN ER(from_none, Fail(m, "panic"))
  ELSE ER(lookup_var(m.heap, env, v.str), m)

eval_deref(e, env, m, d) ==
  Bind(eval(e, env, m, d), LAMBDA r :
  IF r.m.st # "ok" THEN r ELSE deref(r.res, env, r.m))

\* The statements of a block in order; a Return ends the list.
exec_list(list, k, env, m, d) ==
  IF k > Len(list) THEN SR("Void", from_none, m)
  ELSE
    Bind(exec(list[k], env, m, d), LAMBDA r :
    IF r.m.st # "ok" \/ r.ret = "Return" THEN r
    ELSE exec_list(list, k + 1, env, r.m, d))

\* Method::call runs the body block in the scope it is given.
exec(s, env, m, d) ==
  IF d = 0 THEN SR("Void", from_none, Fail(m, "stack"))
  ELSE
  CASE s.kind = "Stmt" ->
         Bind(eval(s.expr, env, m, d), LAMBDA r : SR("Void", from_none, r.m))
    [] s.kind = "PrintStatement" ->
         Bind(eval_deref(s.expr, env, m, d), LAMBDA r :
         IF r.m.st # "ok" THEN SR("Void", from_none, r.m)
         ELSE SR("Void", from_none, [r.m EXCEPT !.out = Append(@, print(r.res))]))
    [] s.kind = "VarDeclaration" ->
         Bind(IF s.expr = None THEN ER(from_none, m) ELSE eval_deref(s.expr, env, m, d), LAMBDA r :
         IF r.m.st # "ok" THEN SR("Void", from_none, r.m)
         ELSE SR("Void", from_none,
                 [r.m EXCEPT !.heap = define_variable(@, env, s.identifier.value, r.res)]))
    [] s.kind = "BlockStatement" ->
         Bind(Append(m.heap, Environment(env)), LAMBDA h1 :
         exec_list(s.statements, 1, Len(h1), [m EXCEPT !.heap = h1], d))
    [] s.kind = "FunStatement" ->
         LET params == [k \in 1..Len(s.args) |-> from_variable(s.args[k].value)]
             method == Method(s.identifier.value, params, s.block, env)
         IN
         SR("Void", from_none,
            [m EXCEPT !.heap = define_variable(@, env, method.name, from_method(method))])
    [] s.kind = "ReturnStatement" ->
         Bind(IF s.expr = None THEN ER(from_none, m) ELSE eval_deref(s.expr, env, m, d), LAMBDA r :
         SR("Return", r.res, r.m))
    [] OTHER -> SR("Void", from_none, Fail(m, "unmodelled"))

\* Method::call: the body's statements run directly in the call's scope.
method_call(body, env, m, d) == exec_list(body.statements, 1, env, m, d)

(***************************************************************************)
(* The pipeline: Parser::program, then the parsed declarations executed in *)
(* order against the global scope.                                         *)
(***************************************************************************)
MaxOps == 2

MaxArgs == 2

MaxJunk == 3

MaxChain == 5
MaxNest == 1

GlobalEnv == 1

NoOp == [op |-> "none"]

Num(n) == Token("Number", to_string(n))

Ident(name) == Token("Identifier", name)

Op(tt) ==
  Token(tt, CASE tt = "Plus" -> <<"+">> [] tt = "Minus" -> <<"-">> [] tt = "Star" -> <<"*">>
              [] tt = "Slash" -> <<"/">> [] tt = "Percent" -> <<"%">> [] OTHER -> <<>>)

Punct(tt) == Token(tt, <<>>)

EOF == Token("EOF", <<>>)

ArithOps == {"Plus", "Minus", "Star", "Slash", "Percent"}

ArithLits == {1, 2, 3}

\* n (op n)^k as a token sequence
RECURSIVE ArithChains(_)
ArithChains(k) ==
  IF k = 0 THEN {<<Num(n)>> : n \in ArithLits}
  ELSE {c \o <<Op(o), Num(n)>> : c \in ArithChains(k - 1), o \in ArithOps, n \in ArithLits}

\* print <chain> ; EOF
ArithPrograms ==
  UNION {{<<Punct("Print")>> \o c \o <<Punct("Semicolon"), EOF>> : c \in ArithChains(k)}
         : k \in 1..MaxOps}

\* a1 , a2 , ... , ak
RECURSIVE ArgLists(_)
ArgLists(k) ==
  IF k = 0 THEN {<<>>}
  ELSE IF k = 1 THEN {<<Num(n)>> : n \in {1, 2}}
  ELSE {l \o <<Punct("Comma"), Num(n)>> : l \in ArgLists(k - 1), n \in {1, 2}}

\* f ( args ) ; EOF
CallPrograms ==
  UNION {{<<Ident(<<"f">>), Punct("LeftParen")>> \o l
            \o <<Punct("RightParen"), Punct("Semicolon"), EOF>> : l \in ArgLists(k)}
         : k \in 0..MaxArgs}

JunkTokens ==
  {Punct("RightParen"), Punct("LeftParen"), Punct("Semicolon"), Punct("LeftBrace"),
   Punct("RightBrace"), Punct("Print"), Num(1), Ident(<<"x">>)}

RECURSIVE JunkSeqs(_)
JunkSeqs(k) ==
  IF k = 0 THEN {<<>>}
  ELSE JunkSeqs(k - 1) \cup {Append(q, t) : q \in {j \in JunkSeqs(k - 1) : Len(j) = k - 1}, t \in JunkTokens}

\* the number of opening parentheses of a token sequence
Nesting(q) == Cardinality({i \in DOMAIN q : q[i].token_type = "LeftParen"})

\* every sequence of at most MaxJunk tokens with at most MaxNest opening
\* parentheses, valid or not, then EOF
JunkPrograms == {q \o <<EOF>> : q \in {j \in JunkSeqs(MaxJunk) : Nesting(j) <= MaxNest}}

BoolTokens == {Token("True", S_true), Token("False", S_false)}

\* b (op b)^k as a token sequence, op being `and` or `or` throughout
RECURSIVE LogicChains(_, _)
LogicChains(op, k) ==
  IF k = 0 THEN {<<b>> : b \in BoolTokens}
  ELSE {c \o <<Punct(op), b>> : c \in LogicChains(op, k - 1), b \in BoolTokens}

\* <chain of 2..MaxChain operands> ; EOF
LogicPrograms ==
  UNION {{c \o <<Punct("Semicolon"), EOF>> : c \in LogicChains(op, k)}
         : op \in {"And", "Or"}, k \in 1..(MaxChain - 1)}

\* the token sequences written in front of `=`: a variable, and the
\* non-variable expressions 1, a + b and f()
TargetSeqs ==
  {<<Ident(<<"a">>)>>, <<Num(1)>>, <<Ident(<<"a">>), Op("Plus"), Ident(<<"b">>)>>,
   <<Ident(<<"f">>), Punct("LeftParen"), Punct("RightParen")>>}

\* the token sequences written after the first `=`: a value, or a further
\* assignment b = value
ValueSeqs ==
  {<<v>> : v \in {Num(2), Ident(<<"c">>)}}
    \cup {<<Ident(<<"b">>), Punct("Equal"), v>> : v \in {Num(2), Ident(<<"c">>)}}

\* <target> = <value> ; EOF
AssignPrograms ==
  {t \o <<Punct("Equal")>> \o v \o <<Punct("Semicolon"), EOF>> :
     t \in TargetSeqs, v \in ValueSeqs}

\* A clause of a for statement: the tokens written and the node they stand
\* for; the omitted clause is no tokens and None.
Omitted == [toks |-> <<>>, node |-> None]

\* var i = 0   and   i = 0
InitClauses ==
  {Omitted,
   [toks |-> <<Punct("Var"), Ident(<<"i">>), Punct("Equal"), Num(0)>>,
    node |-> VarDeclaration(LiteralExpr("Number", <<"0">>),
                            VariableExpr("Identifier", <<"i">>))],
   [toks |-> <<Ident(<<"i">>), Punct("Equal"), Num(0)>>,
    node |-> Stmt(Assignment(VariableExpr("Identifier", <<"i">>),
                             LiteralExpr("Number", <<"0">>)))]}

\* i < 3
CondClauses ==
  {Omitted,
   [toks |-> <<Ident(<<"i">>), Op("Less"), Num(3)>>,
    node |-> Stmt(BinaryExpr(Op("Less"), LiteralExpr("Number", <<"3">>),
                             VariableExpr("Identifier", <<"i">>)))]}

\* i = i + 1
StepClauses ==
  {Omitted,
   [toks |-> <<Ident(<<"i">>), Punct("Equal"), Ident(<<"i">>), Op("Plus"), Num(1)>>,
    node |-> Stmt(Assignment(VariableExpr("Identifier", <<"i">>),
                             BinaryExpr(Op("Plus"), LiteralExpr("Number", <<"1">>),
                                        VariableExpr("Identifier", <<"i">>))))]}

\* print i;
ForBody == [toks |-> <<Punct("Print"), Ident(<<"i">>), Punct("Semicolon")>>,
            node |-> PrintStatement(VariableExpr("Identifier", <<"i">>))]

\* for ( init ; cond ; step ) print i ; EOF
ForTokens(init, cond, step) ==
  <<Punct("For"), Punct("LeftParen")>> \o init.toks \o <<Punct("Semicolon")>>
    \o cond.toks \o <<Punct("Semicolon")>> \o step.toks \o <<Punct("RightParen")>>
    \o ForBody.toks \o <<EOF>>

ForPrograms ==
  {ForTokens(i, c, s) : i \in InitClauses, c \in CondClauses, s \in StepClauses}

Programs ==
  ArithPrograms \cup CallPrograms \cup JunkPrograms \cup LogicPrograms \cup AssignPrograms
    \cup ForPrograms

InitMachine ==
  /\ scopes = <<Environment(0)>>
  /\ out = <<>>
  /\ estatus = "ok"
  /\ last = NoOp
  /\ overflow_checks \in BOOLEAN

InitParse ==
  /\ tokens \in Programs
  /\ current = 0
  /\ declarations = <<>>
  /\ pstatus = "parsing"
  /\ lastDecl = [res |-> "none", from |-> 0, to |-> 0]
  /\ ip = 0
  /\ InitMachine

\* One iteration of the while loop of Parser::program, or its exit.
ProgramStep ==
  /\ pstatus = "parsing"
  /\ IF current < Len(tokens) /\ tokens[current + 1].token_type # "EOF"
     THEN LET d == parse("declaration", tokens, current) IN
          /\ current' = d.cur
          /\ declarations' = IF d.st = "ok" /\ d.e # None
                             THEN Append(declarations, d.e) ELSE declarations
          /\ lastDecl' = [res |-> IF d.st # "ok" THEN d.st
                                  ELSE IF d.e = None THEN "None" ELSE "Some",
                          from |-> current, to |-> d.cur]
          /\ pstatus' = IF d.st # "ok" THEN d.st
                        ELSE IF d.e = None /\ d.cur = current THEN "hang"
                        ELSE "parsing"
     ELSE /\ pstatus' = "parsed"
          /\ UNCHANGED <<current, declarations, lastDecl>>
  /\ UNCHANGED <<tokens, ip, scopes, out, estatus, last, overflow_checks>>

\* The driver executes the next parsed declaration in the global scope.
RunStep ==
  /\ pstatus = "parsed"
  /\ estatus = "ok"
  /\ ip < Len(declarations)
  /\ LET r == exec(declarations[ip + 1], GlobalEnv, [heap |-> scopes, out |-> out, st |-> "ok", oc |-> overflow_checks],
                   MaxDepth) IN
     /\ scopes' = r.m.heap
     /\ out' = r.m.out
     /\ estatus' = r.m.st
  /\ ip' = ip + 1
  /\ UNCHANGED <<tokens, current, declarations, pstatus, lastDecl, last, overflow_checks>>

NextParse == ProgramStep \/ RunStep

SpecParse == InitParse /\ [][NextParse]_vars

(***************************************************************************)
(* Reference arithmetic, written from the mathematical definitions         *)
(***************************************************************************)
Sign(n) == IF n < 0 THEN 0 - 1 ELSE IF n > 0 THEN 1 ELSE 0

\* q is the quotient of a by b truncated toward zero
IsTruncQuot(q, a, b) ==
  LET r == a - q * b IN Abs(r) < Abs(b) /\ (r = 0 \/ Sign(r) = Sign(a))

\* r is the Euclidean remainder of a by b
IsEuclidRem(r, a, b) ==
  /\ 0 <= r
  /\ r < Abs(b)
  /\ \E q \in (0 - Abs(a) - 1)..(Abs(a) + 1) : a = q * b + r

MathOp(tt, a, b) ==
  CASE tt = "Plus" -> a + b
    [] tt = "Minus" -> a - b
    [] tt = "Star" -> a * b
    [] tt = "Slash" -> CHOOSE q \in (0 - Abs(a))..Abs(a) : IsTruncQuot(q, a, b)
    [] tt = "Percent" -> CHOOSE r \in 0..(Abs(b) - 1) : IsEuclidRem(r, a, b)

\* The last position of `c` holding an operator of the set S, 0 if none
LastOp(c, S) ==
  Bind({k \in 1..Len(c) : c[k].token_type \in S}, LAMBDA I :
  IF I = {} THEN 0 ELSE CHOOSE k \in I : \A j \in I : j <= k)

\* Standard precedence: an expression splits at its last + or -, and if it
\* has none at its last * / or %.
SplitAt(c) ==
  Bind(LastOp(c, {"Plus", "Minus"}), LAMBDA a :
  IF a # 0 THEN a ELSE LastOp(c, {"Star", "Slash", "Percent"}))

NumOf(tok) == CHOOSE n \in ArithLits : Num(n) = tok

RECURSIVE RefValue(_)
RefValue(c) ==
  IF Len(c) = 1 THEN NumOf(c[1])
  ELSE LET k == SplitAt(c) IN
       MathOp(c[k].token_type, RefValue(SubSeq(c, 1, k - 1)), RefValue(SubSeq(c, k + 1, Len(c))))

RECURSIVE RefTree(_)
RefTree(c) ==
  IF Len(c) = 1 THEN LiteralExpr("Number", c[1].value)
  ELSE LET k == SplitAt(c) IN
       BinaryExpr(c[k], RefTree(SubSeq(c, k + 1, Len(c))), RefTree(SubSeq(c, 1, k - 1)))

ChainOf(toks) == SubSeq(toks, 2, Len(toks) - 2)

(***************************************************************************)
(* Claims about the parser                                                 *)
(***************************************************************************)
\* C1: for `print e;` with e built from integer literals and + - * / %, the
\* parser never fails, its tree is the standard-precedence tree (* / % bind
\* tighter than + -, equal precedence groups left to right), and running the
\* statement prints the standard-precedence value.
C1_ArithPrecedence ==
  tokens \in ArithPrograms =>
    /\ pstatus \in {"parsing", "parsed"}
    /\ lastDecl.res # "none" =>
         /\ declarations = <<PrintStatement(RefTree(ChainOf(tokens)))>>
         /\ current = Len(tokens) - 1
    /\ ip = 1 => estatus = "ok" /\ out = <<to_string(RefValue(ChainOf(tokens)))>>

\* `print 1 - 2 - 3;` has been parsed and run, and printed -4
C1_Witness ==
  /\ tokens = <<Punct("Print"), Num(1), Op("Minus"), Num(2), Op("Minus"), Num(3),
                Punct("Semicolon"), EOF>>
  /\ ip = 1
  /\ out = <<<<"-", "4">>>>

\* The argument expressions of f ( a1 , ... , ak ) ; EOF in source order
ExpectedArgs(toks) ==
  Bind(SelectSeq(toks, LAMBDA t : t.token_type = "Number"), LAMBDA nums :
  [k \in 1..Len(nums) |-> LiteralExpr("Number", nums[k].value)])

\* C2: parsing f(a1, ..., ak) with Comma-separated arguments yields one Call
\* node holding the k arguments in source order, the cursor just after the
\* closing paren (so that the statement ends at the EOF token).
C2_CallArgs ==
  tokens \in CallPrograms =>
    /\ pstatus \in {"parsing", "parsed"}
    /\ lastDecl.res # "none" =>
         /\ declarations =
              <<Stmt(Call(VariableExpr("Identifier", <<"f">>), ExpectedArgs(tokens)))>>
         /\ current = Len(tokens) - 1

\* C3: Parser::program terminates: neither the program loop nor a block loop
\* hangs, and a declaration() that yields no statement has advanced the
\* cursor or aborted the parse.
C3_ProgramTerminates ==
  /\ pstatus # "hang"
  /\ lastDecl.res = "None" => lastDecl.to > lastDecl.from

(***************************************************************************)
(* Expression statements against a global scope.  The scope starts with    *)
(* the variables t and e bound to values a program can bind them to (var   *)
(* declarations and fun declarations); each step runs one statement.       *)
(***************************************************************************)
MaxSteps == 2

VarNames == {<<"t">>, <<"e">>}

Var(name) == VariableExpr("Identifier", name)

NumLit(n) == LiteralExpr("Number", to_string(n))

BoolLit(b) == IF b THEN LiteralExpr("True", S_true) ELSE LiteralExpr("False", S_false)

NilLit == LiteralExpr("Nil", S_nil)

\* fun f() { return 1; } declared in the global scope
OneFn ==
  from_method(Method(<<"f">>, <<>>, BlockStatement(<<ReturnStatement(NumLit(1))>>), GlobalEnv))

BindValues == {from_number(5), from_bool(TRUE), from_str(<<"s">>), from_none, OneFn}

RhsExprs == {Var(<<"t">>), Var(<<"e">>), NumLit(7), NilLit}

Operands == {Var(<<"t">>), Var(<<"e">>), NumLit(5), BoolLit(TRUE)}

InitEval ==
  /\ tokens = <<>>
  /\ current = 0
  /\ declarations = <<>>
  /\ pstatus = "parsed"
  /\ lastDecl = [res |-> "none", from |-> 0, to |-> 0]
  /\ ip = 0
  /\ \E vt \in BindValues, ve \in BindValues :
       scopes = <<[values |-> (<<"t">> :> vt) @@ (<<"e">> :> ve), enclosing |-> 0]>>
  /\ out = <<>>
  /\ estatus = "ok"
  /\ last = NoOp
  /\ overflow_checks \in BOOLEAN

\* The machine state after a statement, and what the statement was
Commit(r, op, e) ==
  /\ scopes' = r.m.heap
  /\ out' = r.m.out
  /\ estatus' = r.m.st
  /\ last' = [op |-> op, expr |-> e, pre |-> scopes, res |-> r.res]

\* The expression statement `e;` in the global scope
ExprStatement(e, op) ==
  /\ Commit(eval(e, GlobalEnv, [heap |-> scopes, out |-> out, st |-> "ok", oc |-> overflow_checks], MaxDepth), op, e)
  /\ ip' = ip + 1
  /\ UNCHANGED <<tokens, current, declarations, pstatus, lastDecl, overflow_checks>>

AssignStep ==
  /\ estatus = "ok"
  /\ ip < MaxSteps
  /\ \E t \in VarNames, rhs \in RhsExprs : ExprStatement(Assignment(Var(t), rhs), "assign")

UnaryStep ==
  /\ estatus = "ok"
  /\ ip < MaxSteps
  /\ \E tt \in {"Minus", "Bang"}, x \in Operands :
       ExprStatement(UnaryExpr(Op(tt), x), "operator")

BinaryStep ==
  /\ estatus = "ok"
  /\ ip < MaxSteps
  /\ \E tt \in {"Plus", "Less"}, l \in Operands, r \in Operands :
       ExprStatement(BinaryExpr(Op(tt), r, l), "operator")

LogicalStep ==
  /\ estatus = "ok"
  /\ ip < MaxSteps
  /\ \E tt \in {"And", "Or"}, l \in Operands, r \in Operands :
       ExprStatement(Logical(Op(tt), r, l), "operator")

\* `var x = <literal>;` in the global scope
DeclareStep ==
  /\ estatus = "ok"
  /\ ip < MaxSteps
  /\ \E x \in VarNames, init \in {NumLit(7), BoolLit(FALSE), None} :
       Commit(exec(VarDeclaration(init, Ident(x)), GlobalEnv,
                   [heap |-> scopes, out |-> out, st |-> "ok", oc |-> overflow_checks], MaxDepth),
              "declare", init)
  /\ ip' = ip + 1
  /\ UNCHANGED <<tokens, current, declarations, pstatus, lastDecl, overflow_checks>>

NextEval == AssignStep \/ UnaryStep \/ BinaryStep \/ LogicalStep \/ DeclareStep

SpecEval == InitEval /\ [][NextEval]_vars

\* What the last assignment was about: its target, and the value its
\* right-hand side resolves to in the scopes it started from.
Target == last.expr.identifier.value

IsVar(x) == x.kind = "VariableExpr"

ResolvedRhs ==
  IF IsVar(last.expr.value) THEN lookup_var(last.pre, GlobalEnv, last.expr.value.value)
  ELSE eval(last.expr.value, GlobalEnv, [heap |-> last.pre, out |-> <<>>, st |-> "ok", oc |-> overflow_checks],
            MaxDepth).res

AssignDefined ==
  /\ defined(last.pre, GlobalEnv, Target)
  /\ IsVar(last.expr.value) => defined(last.pre, GlobalEnv, last.expr.value.value)

OthersUnchanged ==
  \A n \in DOMAIN last.pre[GlobalEnv].values :
    n # Target => /\ n \in DOMAIN scopes[GlobalEnv].values
                  /\ scopes[GlobalEnv].values[n] = last.pre[GlobalEnv].values[n]

\* C4: after an assignment `t = e` where t is defined and e resolves (an
\* identifier dereferenced) to a non-Nil value v, lookup(t) yields v and every
\* other binding, the variable named by e included, is unchanged.
C4_AssignStores ==
  (last.op = "assign" /\ AssignDefined /\ ResolvedRhs.type_ # "Nil") =>
    /\ estatus = "ok"
    /\ defined(scopes, GlobalEnv, Target)
    /\ lookup_var(scopes, GlobalEnv, Target) = ResolvedRhs
    /\ OthersUnchanged

\* C5: after an assignment `t = e` whose right-hand side resolves to Nil (the
\* literal nil or a variable bound to Nil) t has no binding any more, and no
\* other binding is changed.
C5_AssignNilRemoves ==
  (last.op = "assign" /\ AssignDefined /\ ResolvedRhs.type_ = "Nil") =>
    /\ estatus = "ok"
    /\ ~defined(scopes, GlobalEnv, Target)
    /\ OthersUnchanged

\* The literal that denotes a primitive value
Primitive(v) == v.type_ \in {"Number", "Boolean", "String"}

LiteralOf(v) ==
  CASE v.type_ = "Number" -> NumLit(v.number)
    [] v.type_ = "Boolean" -> BoolLit(v.boolean)
    [] v.type_ = "String" -> LiteralExpr("String", v.str)

OperandsOf(e) == IF e.kind = "UnaryExpr" THEN {e.rhs} ELSE {e.lhs, e.rhs}

\* The operand with a variable replaced by the literal of the value it is bound to
SubstOperand(x, heap) ==
  IF IsVar(x) THEN LiteralOf(lookup_var(heap, GlobalEnv, x.value)) ELSE x

Subst(e, heap) ==
  IF e.kind = "UnaryExpr" THEN UnaryExpr(e.token, SubstOperand(e.rhs, heap))
  ELSE [e EXCEPT !.lhs = SubstOperand(@, heap), !.rhs = SubstOperand(@, heap)]

SameAsLiteral(lit) == last.res = lit.res /\ estatus = lit.m.st

\* C6: a Unary, Binary or Logical expression over variables bound to
\* primitive values evaluates to what the same expression over the literals
\* of those values evaluates to (-x with x = 5 is -5, !b with b = true is false).
C6_OperandsResolved ==
  (/\ last.op = "operator"
   /\ \A x \in OperandsOf(last.expr) :
        IsVar(x) => /\ defined(last.pre, GlobalEnv, x.value)
                    /\ Primitive(lookup_var(last.pre, GlobalEnv, x.value))) =>
    SameAsLiteral(eval(Subst(last.expr, last.pre), GlobalEnv,
                       [heap |-> last.pre, out |-> <<>>, st |-> "ok", oc |-> overflow_checks], MaxDepth))

(***************************************************************************)
(* Closures.  The global scope declares                                    *)
(*   fun m() { var i = 0; fun k() { i = i + 1; return i; } return k; }     *)
(* and the steps bind counters made by m(), share them between variables   *)
(* and print their calls.                                                  *)
(***************************************************************************)
MaxCalls == 3

MaxScopes == 6

CounterNames == {<<"c">>, <<"d">>}

CountBody ==
  BlockStatement(<<Stmt(Assignment(Var(<<"i">>),
                                   BinaryExpr(Op("Plus"), NumLit(1), Var(<<"i">>)))),
                   ReturnStatement(Var(<<"i">>))>>)

MakeCounterDecl ==
  FunStatement(Ident(<<"m">>), <<>>,
               BlockStatement(<<VarDeclaration(NumLit(0), Ident(<<"i">>)),
                                FunStatement(Ident(<<"k">>), <<>>, CountBody),
                                ReturnStatement(Var(<<"k">>))>>))

InitClosure ==
  /\ tokens = <<>>
  /\ current = 0
  /\ declarations = <<>>
  /\ pstatus = "parsed"
  /\ lastDecl = [res |-> "none", from |-> 0, to |-> 0]
  /\ ip = 0
  /\ InitMachine

\* The machine state after a statement of the global scope, and which
\* statement it was
CommitStmt(r, op, name) ==
  /\ scopes' = r.m.heap
  /\ out' = r.m.out
  /\ estatus' = r.m.st
  /\ last' = [op |-> op, name |-> name, pre |-> scopes, pout |-> out]
  /\ UNCHANGED <<parser_vars, overflow_checks>>

Global(s) == exec(s, GlobalEnv, [heap |-> scopes, out |-> out, st |-> "ok", oc |-> overflow_checks], MaxDepth)

\* fun m() { ... }
DeclareMakeCounter ==
  /\ estatus = "ok"
  /\ ~defined(scopes, GlobalEnv, <<"m">>)
  /\ CommitStmt(Global(MakeCounterDecl), "fun", <<"m">>)

\* var c = m();
NewCounter ==
  /\ estatus = "ok"
  /\ defined(scopes, GlobalEnv, <<"m">>)
  /\ Len(scopes) < MaxScopes
  /\ \E c \in CounterNames :
       CommitStmt(Global(VarDeclaration(Call(Var(<<"m">>), <<>>), Ident(c))), "new", c)

\* var d = c;
ShareCounter ==
  /\ estatus = "ok"
  /\ \E c \in CounterNames, d \in CounterNames :
       /\ c # d
       /\ defined(scopes, GlobalEnv, c)
       /\ CommitStmt(Global(VarDeclaration(Var(c), Ident(d))), "share", d)

\* print c();
CallCounter ==
  /\ estatus = "ok"
  /\ Len(out) < MaxCalls
  /\ Len(scopes) < MaxScopes
  /\ \E c \in CounterNames :
       /\ defined(scopes, GlobalEnv, c)
       /\ CommitStmt(Global(PrintStatement(Call(Var(c), <<>>))), "call", c)

NextClosure == DeclareMakeCounter \/ NewCounter \/ ShareCounter \/ CallCounter

SpecClosure == InitClosure /\ [][NextClosure]_vars

\* The closure the last call went through, and the scope it captured
Callee == lookup_var(last.pre, GlobalEnv, last.name)

Captured == Callee.method.captured_env

Count(heap, s) == heap[s].values[<<"i">>].number

\* The scopes created by calls of a closure over the scope s
CallsOn(s) == {c \in 1..Len(scopes) : scopes[c].enclosing = s /\ scopes[c].values = <<>>}

\* C7: a call of a Function value runs in a fresh scope whose parent is the
\* captured environment itself (an existing scope, not a copy and not the
\* caller's global scope); the assignment the body makes lands in that scope,
\* the call prints the value every earlier call through any holder has led
\* to, and no other scope changes.  In every state a counter scope's i is the
\* number of calls made on it.
C7_ClosureByReference ==
  /\ last.op = "call" =>
       /\ estatus = "ok"
       /\ Len(scopes) = Len(last.pre) + 1
       /\ scopes[Len(scopes)].enclosing = Captured
       /\ Captured \in 2..Len(last.pre)
       /\ Count(scopes, Captured) = Count(last.pre, Captured) + 1
       /\ out = Append(last.pout, to_string(Count(scopes, Captured)))
       /\ \A s \in 1..Len(last.pre) : s # Captured => scopes[s] = last.pre[s]
  /\ \A s \in 1..Len(scopes) :
       <<"i">> \in DOMAIN scopes[s].values => Count(scopes, s) = Cardinality(CallsOn(s))

\* Three calls on one counter held by both c and d, the last through d
C7_Witness ==
  /\ last.op = "call"
  /\ last.name = <<"d">>
  /\ out = <<<<"1">>, <<"2">>, <<"3">>>>
  /\ defined(scopes, GlobalEnv, <<"c">>)
  /\ lookup_var(scopes, GlobalEnv, <<"c">>).method.captured_env = Captured

(***************************************************************************)
(* Value operations.  A value, or an operator with its Number operands, is *)
(* drawn from a bounded set; a step applies copy, print, the Number branch *)
(* of the BinaryExpr arm or the UnaryExpr arm to it.                       *)
(***************************************************************************)
MaxNum == 3

Numbers == (0 - MaxNum)..MaxNum

\* The Numbers at the two ends of the isize range
EdgeNumbers == {isize_MIN, isize_MIN + 1, isize_MAX - 1, isize_MAX}

OperandNumbers == Numbers \cup EdgeNumbers

\* The equality and comparison operators Parser::equality and
\* Parser::comparison put in a BinaryExpr
CompareOps ==
  {"EqualEqual", "BangEqual", "Less", "LessEqual", "Greater", "GreaterEqual"}

ObjNames == {<<"f">>, <<"B">>}

SampleMethod(n) == Method(n, <<>>, BlockStatement(<<>>), GlobalEnv)

SampleClass(n) == Class(n, <<>>, <<>>)

Values ==
  {from_number(n) : n \in Numbers}
    \cup {from_bool(TRUE), from_bool(FALSE), from_none,
          from_str(<<>>), from_str(<<"s">>), from_str(<<"a", "b">>)}
    \cup {from_method(SampleMethod(n)) : n \in ObjNames}
    \cup {from_class(SampleClass(n)) : n \in ObjNames}
    \cup {from_instance(Instance(SampleClass(n), GlobalEnv + 1)) : n \in ObjNames}

InitValue ==
  /\ tokens = <<>>
  /\ current = 0
  /\ declarations = <<>>
  /\ pstatus = "parsed"
  /\ lastDecl = [res |-> "none", from |-> 0, to |-> 0]
  /\ ip = 0
  /\ scopes = <<Environment(0)>>
  /\ out = <<>>
  /\ estatus = "ok"
  /\ overflow_checks \in BOOLEAN
  /\ \/ \E v \in Values : last = [op |-> "value", arg |-> v]
     \/ \E tt \in ArithOps \cup CompareOps, a \in OperandNumbers, b \in OperandNumbers :
          last = [op |-> "operands", tt |-> tt, a |-> a, b |-> b]
     \/ \E a \in OperandNumbers : last = [op |-> "operand", tt |-> "Minus", a |-> a]

\* ExpressionRes::copy(&v)
CopyStep ==
  /\ last.op = "value"
  /\ last' = [op |-> "copy", arg |-> last.arg, res |-> copy(last.arg)]
  /\ UNCHANGED <<parser_vars, overflow_checks, scopes, out, estatus>>

\* v.print(), written to the output
PrintStep ==
  /\ last.op = "value"
  /\ out' = Append(out, print(last.arg))
  /\ last' = [op |-> "print", arg |-> last.arg]
  /\ UNCHANGED <<parser_vars, overflow_checks, scopes, estatus>>

CommitBinary(r) ==
  /\ estatus' = r.m.st
  /\ last' = [op |-> "binary", tt |-> last.tt, a |-> last.a, b |-> last.b, res |-> r.res]

\* lhs <op> rhs on two Numbers
BinaryOpStep ==
  /\ last.op = "operands"
  /\ CommitBinary(binary_op(last.tt, from_number(last.a), from_number(last.b),
                            [heap |-> scopes, out |-> out, st |-> "ok", oc |-> overflow_checks]))
  /\ UNCHANGED <<parser_vars, overflow_checks, scopes, out>>

\* -rhs on a Number
UnaryOpStep ==
  /\ last.op = "operand"
  /\ Bind(unary_op(last.tt, from_number(last.a),
                   [heap |-> scopes, out |-> out, st |-> "ok", oc |-> overflow_checks]),
          LAMBDA r : /\ estatus' = r.m.st
                     /\ last' = [op |-> "unary", tt |-> last.tt, a |-> last.a,
                                 res |-> r.res])
  /\ UNCHANGED <<parser_vars, overflow_checks, scopes, out>>

NextValue == CopyStep \/ PrintStep \/ BinaryOpStep \/ UnaryOpStep

SpecValue == InitValue /\ [][NextValue]_vars

\* C8: copy keeps the tag; a Function, Class or Instance copy refers to the
\* same Method, Class or Instance object as the original, and a String,
\* Number, Boolean or Nil copy equals the original.
C8_CopyShares ==
  last.op = "copy" =>
    /\ last.res.type_ = last.arg.type_
    /\ IF last.arg.type_ \in {"Function", "Class", "Instance"}
       THEN /\ last.res.method = last.arg.method
            /\ last.res.class = last.arg.class
            /\ last.res.instance = last.arg.instance
       ELSE last.res = last.arg

\* The canonical text of a value
Canonical(v) ==
  CASE v.type_ = "Number" -> to_string(v.number)
    [] v.type_ = "Boolean" -> IF v.boolean THEN <<"t", "r", "u", "e">>
                              ELSE <<"f", "a", "l", "s", "e">>
    [] v.type_ = "Nil" -> <<"n", "i", "l">>
    [] v.type_ = "String" -> v.str
    [] v.type_ = "Function" ->
         <<"f", "u", "n", "c", "t", "i", "o", "n", " ", ":">> \o v.method.name
    [] v.type_ = "Class" -> <<"c", "l", "a", "s", "s", " ", ":">> \o v.class.name
    [] v.type_ = "Instance" ->
         <<"i", "n", "s", "t", "a", "n", "c", "e", " ", "o", "f", " ">>
           \o v.instance.class.name

\* C9: print yields the canonical form for every tag: decimal digits, true
\* or false, nil, the string itself, `function :n`, `class :n`, and
\* `instance of n`.
C9_PrintCanonical == last.op = "print" => out = <<Canonical(last.arg)>>

\* C10: on Numbers a and b of the range with b # 0, + - * give the integer
\* sum, difference and product, / the quotient truncated toward zero, and %
\* the Euclidean remainder r, with 0 <= r < b and b dividing a - r when b > 0.
C10_NumberArithmetic ==
  (/\ last.op = "binary"
   /\ last.tt \in ArithOps
   /\ last.a \in Numbers
   /\ last.b \in Numbers \ {0}) =>
    /\ estatus = "ok"
    /\ last.res.type_ = "Number"
    /\ CASE last.tt = "Plus" -> last.res.number = last.a + last.b
         [] last.tt = "Minus" -> last.res.number = last.a - last.b
         [] last.tt = "Star" -> last.res.number = last.a * last.b
         [] last.tt = "Slash" -> IsTruncQuot(last.res.number, last.a, last.b)
         [] last.tt = "Percent" ->
              /\ IsEuclidRem(last.res.number, last.a, last.b)
              /\ last.b > 0 => /\ 0 <= last.res.number
                               /\ last.res.number < last.b
                               /\ (last.a - last.res.number) % last.b = 0

\* (-3) % 2 is 1
C10_Witness ==
  /\ last.op = "binary"
  /\ last.tt = "Percent"
  /\ last.a = 0 - 3
  /\ last.b = 2
  /\ last.res = from_number(1)

\* The integer comparison an equality or comparison operator stands for
MathCompare(tt, a, b) ==
  CASE tt = "EqualEqual" -> a = b
    [] tt = "BangEqual" -> a # b
    [] tt = "Less" -> a < b
    [] tt = "LessEqual" -> a <= b
    [] tt = "Greater" -> a > b
    [] tt = "GreaterEqual" -> a >= b

\* C11: on two Numbers each of == != < <= > >= evaluates to the Boolean of
\* the corresponding integer comparison; a != b is never Nil.
C11_NumberComparisons ==
  (last.op = "binary" /\ last.tt \in CompareOps) =>
    /\ estatus = "ok"
    /\ last.res = from_bool(MathCompare(last.tt, last.a, last.b))

\* r is n reduced modulo 2^WordBits into the signed range
IsWrapOf(r, n) == in_isize(r) /\ (r - n) % (2 ^ WordBits) = 0

\* C12: + - * and unary - on Numbers never abort and yield the mathematical
\* result reduced modulo 2^WordBits into the signed range, so that the
\* largest Number plus 1 is the smallest Number.
C12_ArithmeticWraps ==
  /\ (last.op = "binary" /\ last.tt \in {"Plus", "Minus", "Star"}) =>
       /\ estatus = "ok"
       /\ last.res.type_ = "Number"
       /\ IsWrapOf(last.res.number, MathOp(last.tt, last.a, last.b))
  /\ last.op = "unary" =>
       /\ estatus = "ok"
       /\ last.res.type_ = "Number"
       /\ IsWrapOf(last.res.number, 0 - last.a)

\* The operands of a tree of Logical nodes, left to right
RECURSIVE LogicalLeaves(_)
LogicalLeaves(e) ==
  IF e.kind = "Logical" THEN LogicalLeaves(e.lhs) \o LogicalLeaves(e.rhs) ELSE <<e>>

\* The operand tokens of a chain program: every second token before `;`
ChainOperands(toks) == [k \in 1..((Len(toks) - 1) \div 2) |-> toks[2 * k - 1]]

\* C13: the first expression statement of a chain of n >= 2 operands joined
\* by `and` (or by `or`) consumes the whole chain up to and including the
\* semicolon and yields a tree of Logical nodes over all n operands in
\* source order.
C13_LogicChainConsumed ==
  (tokens \in LogicPrograms /\ lastDecl.res # "none" /\ lastDecl.from = 0) =>
    /\ lastDecl.res = "Some"
    /\ lastDecl.to = Len(tokens) - 1
    /\ declarations[1].kind = "Stmt"
    /\ LogicalLeaves(declarations[1].expr)
         = [k \in 1..((Len(tokens) - 1) \div 2) |->
              LiteralExpr(ChainOperands(tokens)[k].token_type,
                          ChainOperands(tokens)[k].value)]

(***************************************************************************)
(* Calls and property access.  The global scope binds the functions        *)
(*   fun f() { return 1; }      fun g(a, b) { return 1; }                  *)
(* and the classes A, without constructor parameters, and B, with the      *)
(* constructor parameter x, each with the method value() { return x; }.    *)
(* The steps call them, bind instances to o and p, and read properties.    *)
(***************************************************************************)
MaxCallSteps == 2

ReturnOne == BlockStatement(<<ReturnStatement(NumLit(1))>>)

ValueMethod ==
  Method(<<"v", "a", "l", "u", "e">>, <<>>,
         BlockStatement(<<ReturnStatement(Var(<<"x">>))>>), GlobalEnv)

CallGlobals ==
  (<<"f">> :> from_method(Method(<<"f">>, <<>>, ReturnOne, GlobalEnv)))
    @@ (<<"g">> :> from_method(Method(<<"g">>, <<from_variable(<<"a">>), from_variable(<<"b">>)>>,
                                      ReturnOne, GlobalEnv)))
    @@ (<<"A">> :> from_class(Class(<<"A">>, <<>>, <<ValueMethod>>)))
    @@ (<<"B">> :> from_class(Class(<<"B">>, <<from_variable(<<"x">>)>>, <<ValueMethod>>)))

CalleeNames == {<<"f">>, <<"g">>, <<"A">>, <<"B">>}

ClassNames == {<<"A">>, <<"B">>}

InstanceNames == {<<"o">>, <<"p">>}

PropertyNames == {<<"v", "a", "l", "u", "e">>, <<"n", "o", "p", "e">>}

\* the argument lists 1, .., k and 2, .., k + 1 for k up to MaxArgs
ArgExprs == {[j \in 1..k |-> NumLit(b + j)] : k \in 0..MaxArgs, b \in 0..1}

\* the object expressions of a property access
ObjectExprs ==
  {Var(n) : n \in InstanceNames \cup {<<"f">>}}
    \cup {GroupingExpr(Var(<<"o">>)), Call(Var(<<"B">>), <<NumLit(1)>>)}

InitCall ==
  /\ tokens = <<>>
  /\ current = 0
  /\ declarations = <<>>
  /\ pstatus = "parsed"
  /\ lastDecl = [res |-> "none", from |-> 0, to |-> 0]
  /\ ip = 0
  /\ scopes = <<[values |-> CallGlobals, enclosing |-> 0]>>
  /\ out = <<>>
  /\ estatus = "ok"
  /\ last = NoOp
  /\ overflow_checks \in BOOLEAN

\* The machine state after a statement, the statement, and the state before
CommitCall(r, op, e, name) ==
  /\ scopes' = r.m.heap
  /\ out' = r.m.out
  /\ estatus' = r.m.st
  /\ last' = [op |-> op, expr |-> e, name |-> name, pre |-> scopes, pout |-> out,
              res |-> r.res]
  /\ ip' = ip + 1
  /\ UNCHANGED <<tokens, current, declarations, pstatus, lastDecl, overflow_checks>>

\* c(args);
CallStep ==
  /\ estatus = "ok"
  /\ ip < MaxCallSteps
  /\ \E c \in CalleeNames, args \in ArgExprs :
       CommitCall(eval(Call(Var(c), args), GlobalEnv,
                       [heap |-> scopes, out |-> out, st |-> "ok", oc |-> overflow_checks],
                       MaxDepth),
                  "call", Call(Var(c), args), <<>>)

\* var o = C(args);
NewStep ==
  /\ estatus = "ok"
  /\ ip < MaxCallSteps
  /\ \E c \in ClassNames, args \in ArgExprs, o \in InstanceNames :
       CommitCall(exec(VarDeclaration(Call(Var(c), args), Ident(o)), GlobalEnv,
                       [heap |-> scopes, out |-> out, st |-> "ok", oc |-> overflow_checks],
                       MaxDepth),
                  "new", Call(Var(c), args), o)

\* obj.prop;
GetStep ==
  /\ estatus = "ok"
  /\ ip < MaxCallSteps
  /\ \E obj \in ObjectExprs, prop \in PropertyNames :
       CommitCall(eval(Get(obj, prop), GlobalEnv,
                       [heap |-> scopes, out |-> out, st |-> "ok", oc |-> overflow_checks],
                       MaxDepth),
                  "get", Get(obj, prop), <<>>)

NextCall == CallStep \/ NewStep \/ GetStep

SpecCall == InitCall /\ [][NextCall]_vars

\* The callee of the last call, as it was bound before the call
LastCallee == lookup_var(last.pre, GlobalEnv, last.expr.identifier.value)

\* The declared parameter names of a Function or Class value
ParamNames(v) ==
  IF v.type_ = "Function" THEN [k \in 1..Len(v.method.args) |-> v.method.args[k].str]
  ELSE [k \in 1..Len(v.class.args) |-> v.class.args[k].str]

Min(a, b) == IF a < b THEN a ELSE b

\* C14: a call whose argument count differs from the parameter count prints
\* the arity report and still enters the callee, with fewer as with more
\* arguments, the parameters that have an argument being bound in the
\* call's scope; a call with equal counts prints no report and succeeds.
C14_ArityReported ==
  last.op = "call" =>
    /\ estatus = "ok"
    /\ out = IF Len(ParamNames(LastCallee)) = Len(last.expr.args) THEN last.pout
             ELSE Append(last.pout, S_arity_report)
    /\ Len(scopes) > Len(last.pre)
    /\ \A j \in 1..Min(Len(ParamNames(LastCallee)), Len(last.expr.args)) :
         /\ ParamNames(LastCallee)[j] \in DOMAIN scopes[Len(last.pre) + 1].values
         /\ scopes[Len(last.pre) + 1].values[ParamNames(LastCallee)[j]]
              = from_number(parse_isize(last.expr.args[j].value))
    /\ IF LastCallee.type_ = "Function" THEN last.res = from_number(1)
       ELSE last.res.type_ = "Instance"

\* C15: every binding of every scope holds a value tagged String, Number,
\* Boolean, Nil, Function, Class or Instance, never Identifier, and the
\* result of an Assignment, Unary, Binary or Logical expression is not
\* tagged Identifier.
C15_NoIdentifierValue ==
  /\ \A k \in DOMAIN scopes : \A n \in DOMAIN scopes[k].values :
       scopes[k].values[n].type_
         \in {"String", "Number", "Boolean", "Nil", "Function", "Class", "Instance"}
  /\ last.op \in {"assign", "operator"} => last.res.type_ # "Identifier"

\* Every Assignment node of an expression has a VariableExpr as its target
RECURSIVE TargetsAreVariables(_)
TargetsAreVariables(e) ==
  CASE e.kind = "Assignment" ->
         /\ e.identifier.kind = "VariableExpr"
         /\ TargetsAreVariables(e.value)
    [] e.kind \in {"BinaryExpr", "Logical"} ->
         TargetsAreVariables(e.lhs) /\ TargetsAreVariables(e.rhs)
    [] e.kind = "UnaryExpr" -> TargetsAreVariables(e.rhs)
    [] e.kind = "GroupingExpr" -> TargetsAreVariables(e.value)
    [] e.kind = "Call" ->
         /\ TargetsAreVariables(e.identifier)
         /\ \A k \in DOMAIN e.args : TargetsAreVariables(e.args[k])
    [] e.kind = "Get" -> TargetsAreVariables(e.expr)
    [] OTHER -> TRUE

\* The expression of a literal or identifier token
Operand(tok) ==
  IF tok.token_type = "Identifier" THEN VariableExpr(tok.token_type, tok.value)
  ELSE LiteralExpr(tok.token_type, tok.value)

\* The right-nested tree of  x1 = x2 = ... = xn  (toks without `;` and EOF)
RECURSIVE RightNested(_)
RightNested(toks) ==
  IF Len(toks) = 1 THEN Operand(toks[1])
  ELSE Assignment(Operand(toks[1]), RightNested(SubSeq(toks, 3, Len(toks))))

\* the program's first `=` follows a single identifier
VariableTarget(toks) == toks[1].token_type = "Identifier" /\ toks[2].token_type = "Equal"

\* C16: every Assignment node the parser yields has a VariableExpr target;
\* a = b = c nests to the right as Assign(a, Assign(b, c)); and when `=`
\* follows a non-variable expression (1 = 2, a + b = c, f() = 1) the
\* statement is rejected, not turned into an Assignment.
C16_AssignmentTarget ==
  /\ \A k \in DOMAIN declarations :
       declarations[k].kind = "Stmt" => TargetsAreVariables(declarations[k].expr)
  /\ (tokens \in AssignPrograms /\ lastDecl.res # "none" /\ lastDecl.from = 0) =>
       IF VariableTarget(tokens)
       THEN /\ lastDecl.res = "Some"
            /\ declarations[1] = Stmt(RightNested(SubSeq(tokens, 1, Len(tokens) - 2)))
       ELSE lastDecl.res # "Some"

\* C17: for each combination of present and omitted init, cond and step the
\* first declaration is one ForStatement that consumes the statement up to
\* EOF, holds exactly the clauses written (None for an omitted one) and has
\* the statement after the closing paren as its body.
C17_ForClauses ==
  (tokens \in ForPrograms /\ lastDecl.res # "none" /\ lastDecl.from = 0) =>
    /\ lastDecl.res = "Some"
    /\ lastDecl.to = Len(tokens) - 1
    /\ \E i \in InitClauses, c \in CondClauses, s \in StepClauses :
         /\ tokens = ForTokens(i, c, s)
         /\ declarations[1] = ForStatement(i.node, c.node, s.node, ForBody.node)

\* What the object expression of the last property access evaluates to in
\* the state before it, a variable being replaced by the value bound to it
ObjectValue ==
  eval_deref(last.expr.expr, GlobalEnv,
             [heap |-> last.pre, out |-> last.pout, st |-> "ok", oc |-> overflow_checks],
             MaxDepth)

\* C18: obj.prop yields the method bound to prop whenever obj evaluates to an
\* Instance whose env binds prop, be obj a variable, a grouping or a call
\* such as B(1); it fails only when the value is not an Instance or prop
\* is not bound in the instance's env.
C18_GetOnInstance ==
  last.op = "get" =>
    IF /\ ObjectValue.m.st = "ok"
       /\ ObjectValue.res.type_ = "Instance"
       /\ last.expr.name \in DOMAIN ObjectValue.m.heap[ObjectValue.res.instance.env].values
    THEN /\ estatus = "ok"
         /\ last.res.type_ = "Function"
         /\ last.res.method.name = last.expr.name
    ELSE estatus # "ok"

\* The scopes a Class call adds to the scopes there were before it
FieldsScope == Len(last.pre) + 1

MethodsScope == Len(last.pre) + 2

\* The Instance the last Class call produced
NewInstance ==
  IF last.op = "new" THEN scopes[GlobalEnv].values[last.name] ELSE last.res

\* The global variables bound to an Instance
InstanceVars ==
  {o \in InstanceNames :
     /\ o \in DOMAIN scopes[GlobalEnv].values
     /\ scopes[GlobalEnv].values[o].type_ = "Instance"}

FieldsOf(o) == scopes[scopes[GlobalEnv].values[o].instance.env].enclosing

\* C19: a Class call that succeeds adds a fields scope without parent that
\* binds the constructor parameters to the arguments, and a methods scope
\* whose parent is the fields scope and which binds every method of the
\* class to a Function with that fields scope as captured environment; the
\* Instance refers to the methods scope; the scopes there were and the
\* class's method templates are unchanged; two instances have different
\* fields scopes.
C19_InstanceScopes ==
  /\ (/\ last.op \in {"call", "new"}
      /\ LastCallee.type_ = "Class"
      /\ estatus = "ok") =>
       /\ Len(scopes) = MethodsScope
       /\ scopes[FieldsScope].enclosing = 0
       /\ DOMAIN scopes[FieldsScope].values
            = {ParamNames(LastCallee)[j] : j \in 1..Len(last.expr.args)}
       /\ \A j \in 1..Len(last.expr.args) :
            scopes[FieldsScope].values[ParamNames(LastCallee)[j]]
              = from_number(parse_isize(last.expr.args[j].value))
       /\ scopes[MethodsScope].enclosing = FieldsScope
       /\ DOMAIN scopes[MethodsScope].values
            = {LastCallee.class.methods[k].name : k \in DOMAIN LastCallee.class.methods}
       /\ \A k \in DOMAIN LastCallee.class.methods :
            LET bound == scopes[MethodsScope].values[LastCallee.class.methods[k].name] IN
            /\ bound.type_ = "Function"
            /\ bound.method.captured_env = FieldsScope
            /\ bound.method.name = LastCallee.class.methods[k].name
            /\ bound.method.body = LastCallee.class.methods[k].body
       /\ NewInstance.type_ = "Instance"
       /\ NewInstance.instance.env = MethodsScope
       /\ NewInstance.instance.class = LastCallee.class
       /\ \A k \in 2..Len(last.pre) : scopes[k] = last.pre[k]
       /\ \A n \in DOMAIN last.pre[GlobalEnv].values :
            n # last.name => scopes[GlobalEnv].values[n] = last.pre[GlobalEnv].values[n]
  /\ \A c \in ClassNames : scopes[GlobalEnv].values[c] = CallGlobals[c]
  /\ \A o \in InstanceVars, q \in InstanceVars : o # q => FieldsOf(o) # FieldsOf(q)

\* o and p are instances of B made with the arguments 1 and 2: each has its
\* own fields scope, holding its own x
C19_Witness ==
  /\ last.op = "new"
  /\ estatus = "ok"
  /\ InstanceVars = InstanceNames
  /\ scopes[FieldsOf(<<"o">>)].values = (<<"x">> :> from_number(1))
  /\ scopes[FieldsOf(<<"p">>)].values = (<<"x">> :> from_number(2))
  /\ scopes[GlobalEnv].values[<<"o">>].instance.class.name = <<"B">>

\* C20: while an EOF-terminated token sequence is parsed the cursor stays
\* on or before the EOF token and no token is read at an index at or past
\* the token count.
C20_CursorInBounds ==
  /\ pstatus # "oob"
  /\ lastDecl.res # "oob"
  /\ current < Len(tokens) \/ tokens = <<>>

====
